---------------------------- MODULE Spec2Model ----------------------------
(***************************************************************************)
(* A model of termai's execution pipeline: the safety classifier           *)
(* (safety.py), the allow-list (allowlist.py), the approval protocol and   *)
(* executor (executor.py) and the plan scheduler (orchestrator.py), run    *)
(* from one of three entry points: a single command, a list of commands    *)
(* and a plan; the wave resolver pass by pass; and the settings calls      *)
(* that change the trust stores.                                           *)
(*                                                                         *)
(* Text is modelled as sequences of one-character strings, so that         *)
(* strip(), lower(), startswith() and the regular expressions of the rule  *)
(* table are computed character by character, as the code computes them.   *)
(***************************************************************************)
EXTENDS Integers, Sequences, FiniteSets, TLC

(***************************************************************************)
(* Text helpers (str.strip, str.lower, str.startswith)                     *)
(***************************************************************************)

UpperChars == <<"A","B","C","D","E","F","G","H","I","J","K","L","M",
                "N","O","P","Q","R","S","T","U","V","W","X","Y","Z">>

LowerChars == <<"a","b","c","d","e","f","g","h","i","j","k","l","m",
                "n","o","p","q","r","s","t","u","v","w","x","y","z">>

DigitChars == {"0","1","2","3","4","5","6","7","8","9"}

\* Python's str.isspace() for the characters commands are built from.
SpaceChars == {" ", "\t", "\n", "\r"}

Range(f) == {f[i] : i \in DOMAIN f}

\* The characters the regular expression class \w matches.
WordChars == Range(UpperChars) \cup Range(LowerChars) \cup DigitChars \cup {"_"}

LowerChar(c) ==
    IF \E i \in DOMAIN UpperChars : UpperChars[i] = c
    THEN LowerChars[CHOOSE i \in DOMAIN UpperChars : UpperChars[i] = c]
    ELSE c

\* str.lower()
Lower(s) == [i \in DOMAIN s |-> LowerChar(s[i])]

RECURSIVE LStrip(_)
LStrip(s) ==
    IF s # <<>> /\ Head(s) \in SpaceChars THEN LStrip(Tail(s)) ELSE s

RECURSIVE RStrip(_)
RStrip(s) ==
    IF s # <<>> /\ s[Len(s)] \in SpaceChars
    THEN RStrip(SubSeq(s, 1, Len(s) - 1)) ELSE s

\* str.strip()
Strip(s) == RStrip(LStrip(s))

\* str.startswith(p)
StartsWith(s, p) == Len(p) <= Len(s) /\ SubSeq(s, 1, Len(p)) = p

(***************************************************************************)
(* Regular expressions (the subset of Python's re the rule table uses).    *)
(* A pattern is a tree of records; Ends(r, s, i, ic) is the set of offsets *)
(* j such that r matches s[i+1..j]; ic is re.IGNORECASE.                   *)
(***************************************************************************)

Lit(c)   == [t |-> "lit", c |-> c]
Cls(S)   == [t |-> "cls", S |-> S]
NotCls(S) == [t |-> "ncls", S |-> S]
Dot      == [t |-> "dot"]
Eps      == [t |-> "eps"]
WB       == [t |-> "wb"]
Eol      == [t |-> "eol"]
Cat(rs)  == [t |-> "cat", rs |-> rs]
Alt(rs)  == [t |-> "alt", rs |-> rs]
Star(r)  == [t |-> "star", r |-> r]
Plus(r)  == Cat(<<r, Star(r)>>)
Opt(r)   == Alt(<<r, Eps>>)
\* A literal string: the concatenation of its characters.
Str(s)   == Cat([i \in DOMAIN s |-> Lit(s[i])])

\* \s, \w
ReS == Cls(SpaceChars)
ReW == Cls(WordChars)

\* Membership in a character class; under re.IGNORECASE case is folded.
InClass(c, S, ic) ==
    c \in S \/ (ic /\ \E m \in S : LowerChar(m) = LowerChar(c))

IsWordAt(s, k) == k \in DOMAIN s /\ s[k] \in WordChars

RECURSIVE Ends(_, _, _, _)
RECURSIVE EndsCat(_, _, _, _)
RECURSIVE EndsStar(_, _, _, _, _)

Ends(r, s, i, ic) ==
    CASE r.t = "lit" ->
           IF i < Len(s) /\ (IF ic THEN LowerChar(s[i+1]) = LowerChar(r.c)
                                   ELSE s[i+1] = r.c)
           THEN {i + 1} ELSE {}
      [] r.t = "cls" ->
           IF i < Len(s) /\ InClass(s[i+1], r.S, ic) THEN {i + 1} ELSE {}
      [] r.t = "ncls" ->
           IF i < Len(s) /\ ~InClass(s[i+1], r.S, ic) THEN {i + 1} ELSE {}
      [] r.t = "dot" ->
           IF i < Len(s) /\ s[i+1] # "\n" THEN {i + 1} ELSE {}
      [] r.t = "eps" -> {i}
      [] r.t = "wb" ->
           IF IsWordAt(s, i) # IsWordAt(s, i + 1) THEN {i} ELSE {}
      [] r.t = "eol" ->
           IF i = Len(s) \/ (i = Len(s) - 1 /\ s[Len(s)] = "\n")
           THEN {i} ELSE {}
      [] r.t = "cat" -> EndsCat(r.rs, s, {i}, ic)
      [] r.t = "alt" -> UNION {Ends(r.rs[k], s, i, ic) : k \in DOMAIN r.rs}
      [] r.t = "star" -> EndsStar(r.r, s, {i}, {i}, ic)

\* The offsets reached by matching the patterns rs in turn from any of I.
EndsCat(rs, s, I, ic) ==
    IF rs = <<>> \/ I = {} THEN I
    ELSE EndsCat(Tail(rs), s, UNION {Ends(Head(rs), s, i, ic) : i \in I}, ic)

\* The offsets reached by zero or more matches of r: frontier is what the
\* last round added to acc.
EndsStar(r, s, frontier, acc, ic) ==
    LET step == UNION {Ends(r, s, i, ic) : i \in frontier}
        new  == step \ acc
    IN  IF new = {} THEN acc
        ELSE EndsStar(r, s, new, acc \cup new, ic)

\* re.Pattern.search: a match starting at some offset.
Search(r, s, ic) == \E i \in 0..Len(s) : Ends(r, s, i, ic) # {}

(***************************************************************************)
(* safety.py: the rule table and check_command.  Each pattern is the       *)
(* parse tree of the rule's regular expression (alternatives that share a  *)
(* prefix are written with the prefix factored out, as re parses them);    *)
(* the dash of a reason is written "-".                                    *)
(***************************************************************************)

_RULES == <<
    [re |-> Cat(<<WB, Str(<<"r","m">>), Alt(<<Cat(<<Plus(ReS), Star(Cat(<<Lit("-"), Star(ReW), Lit("f"), Star(ReW), Plus(ReS)>>)), Lit("-"), Star(ReW), Lit("r"), Star(ReW), Plus(ReS), Lit("/"), Star(ReS), Eol>>), Cat(<<Plus(ReS), Star(Cat(<<Lit("-"), Star(ReW), Lit("r"), Star(ReW), Plus(ReS)>>)), Lit("-"), Star(ReW), Lit("f"), Star(ReW), Plus(ReS), Lit("/"), Star(ReS), Eol>>)>>)>>),
     ic |-> TRUE, severity |-> "critical",
     reason |-> "Recursive delete from root - will destroy your system"],
    [re |-> Cat(<<WB, Str(<<"r","m">>), Alt(<<Cat(<<Plus(ReS), Star(Dot), Str(<<"-","r">>), Star(Dot), Str(<<"-","f">>)>>), Cat(<<Plus(ReS), Star(Dot), Str(<<"-","f">>), Star(Dot), Str(<<"-","r">>)>>), Cat(<<Plus(ReS), Str(<<"-","r","f">>), WB>>)>>)>>),
     ic |-> TRUE, severity |-> "high",
     reason |-> "Recursive forced delete"],
    [re |-> Cat(<<WB, Str(<<"r","m">>), Plus(ReS), Star(Dot), Str(<<"-","r">>), WB>>),
     ic |-> TRUE, severity |-> "high",
     reason |-> "Recursive delete"],
    [re |-> Cat(<<WB, Str(<<"r","m">>), ReS>>),
     ic |-> TRUE, severity |-> "medium",
     reason |-> "File deletion"],
    [re |-> Cat(<<WB, Str(<<"r","m","d","i","r">>), WB>>),
     ic |-> TRUE, severity |-> "medium",
     reason |-> "Directory removal"],
    [re |-> Cat(<<WB, Str(<<"f","i","n","d">>), WB, Star(Dot), Str(<<"-","d","e","l","e","t","e">>), WB>>),
     ic |-> TRUE, severity |-> "high",
     reason |-> "Bulk file deletion via find"],
    [re |-> Cat(<<WB, Str(<<"f","i","n","d">>), WB, Star(Dot), Str(<<"-","e","x","e","c">>), Plus(ReS), Str(<<"r","m">>), WB>>),
     ic |-> TRUE, severity |-> "high",
     reason |-> "Bulk file deletion via find -exec"],
    [re |-> Cat(<<WB, Str(<<"x","a","r","g","s">>), Plus(ReS), Str(<<"r","m">>), WB>>),
     ic |-> TRUE, severity |-> "high",
     reason |-> "Piped mass file deletion"],
    [re |-> Cat(<<WB, Str(<<"m","k","f","s">>), WB>>),
     ic |-> TRUE, severity |-> "critical",
     reason |-> "Filesystem format - will erase a disk"],
    [re |-> Cat(<<WB, Str(<<"d","d">>), ReS>>),
     ic |-> TRUE, severity |-> "critical",
     reason |-> "Low-level disk write"],
    [re |-> Cat(<<Lit(">"), Alt(<<Cat(<<Star(ReS), Str(<<"/","d","e","v","/","s","d">>)>>), Cat(<<Star(ReS), Str(<<"/","d","e","v","/","n","v","m">>)>>), Cat(<<Star(ReS), Str(<<"/","d","e","v","/","d","i","s","k">>)>>)>>)>>),
     ic |-> TRUE, severity |-> "critical",
     reason |-> "Direct write to block device"],
    [re |-> Cat(<<WB, Str(<<"f","d","i","s","k">>), WB>>),
     ic |-> TRUE, severity |-> "critical",
     reason |-> "Disk partitioning"],
    [re |-> Cat(<<WB, Str(<<"p","a","r","t","e","d">>), WB>>),
     ic |-> TRUE, severity |-> "critical",
     reason |-> "Disk partitioning"],
    [re |-> Cat(<<WB, Str(<<"w","i","p","e","f","s">>), WB>>),
     ic |-> TRUE, severity |-> "critical",
     reason |-> "Wiping filesystem signatures"],
    [re |-> Cat(<<WB, Str(<<"d","i","s","k","u","t","i","l">>), Plus(ReS), Alt(<<Str(<<"e","r","a","s","e">>), Str(<<"p","a","r","t","i","t","i","o","n","D","i","s","k">>), Str(<<"e","r","a","s","e","D","i","s","k">>)>>), WB>>),
     ic |-> TRUE, severity |-> "critical",
     reason |-> "macOS disk operation - data loss"],
    [re |-> Cat(<<Str(<<"c","a","t">>), Plus(ReS), Str(<<"/","d","e","v","/">>), Alt(<<Str(<<"u","r","a","n","d","o","m">>), Str(<<"z","e","r","o">>)>>), Star(ReS), Lit(">")>>),
     ic |-> TRUE, severity |-> "critical",
     reason |-> "Overwriting with random/zero data"],
    [re |-> Cat(<<WB, Str(<<"c","h","m","o","d">>), Plus(ReS), Str(<<"-","R">>), Plus(ReS), Opt(Lit("0")), Str(<<"7","7","7">>), WB>>),
     ic |-> TRUE, severity |-> "high",
     reason |-> "Recursive world-writable permissions"],
    [re |-> Cat(<<WB, Str(<<"c","h","m","o","d">>), Plus(ReS), Opt(Lit("0")), Str(<<"7","7","7">>), WB>>),
     ic |-> TRUE, severity |-> "medium",
     reason |-> "World-writable permissions"],
    [re |-> Cat(<<WB, Str(<<"c","h","m","o","d">>), Plus(ReS), Opt(Cat(<<Str(<<"-","R">>), Plus(ReS)>>)), Opt(Lit("0")), Str(<<"0","0","0">>), WB>>),
     ic |-> TRUE, severity |-> "high",
     reason |-> "Removing all file permissions"],
    [re |-> Cat(<<WB, Str(<<"c","h","o","w","n">>), Plus(ReS), Str(<<"-","R">>), WB>>),
     ic |-> TRUE, severity |-> "medium",
     reason |-> "Recursive ownership change"],
    [re |-> Cat(<<WB, Str(<<"s","h","u","t","d","o","w","n">>), WB>>),
     ic |-> TRUE, severity |-> "high",
     reason |-> "System shutdown"],
    [re |-> Cat(<<WB, Str(<<"r","e","b","o","o","t">>), WB>>),
     ic |-> TRUE, severity |-> "high",
     reason |-> "System reboot"],
    [re |-> Cat(<<WB, Str(<<"p","o","w","e","r","o","f","f">>), WB>>),
     ic |-> TRUE, severity |-> "high",
     reason |-> "System poweroff"],
    [re |-> Cat(<<WB, Str(<<"i","n","i","t">>), Plus(ReS), Lit("0"), WB>>),
     ic |-> TRUE, severity |-> "high",
     reason |-> "System halt"],
    [re |-> Cat(<<WB, Str(<<"h","a","l","t">>), WB>>),
     ic |-> TRUE, severity |-> "high",
     reason |-> "System halt"],
    [re |-> Cat(<<WB, Str(<<"s","y","s","t","e","m","c","t","l">>), Plus(ReS), Alt(<<Str(<<"s","t","o","p">>), Str(<<"d","i","s","a","b","l","e">>), Str(<<"m","a","s","k">>)>>), WB>>),
     ic |-> TRUE, severity |-> "medium",
     reason |-> "Stopping/disabling a system service"],
    [re |-> Cat(<<WB, Str(<<"l","a","u","n","c","h","c","t","l">>), Plus(ReS), Alt(<<Str(<<"u","n","l","o","a","d">>), Str(<<"r","e","m","o","v","e">>)>>), WB>>),
     ic |-> TRUE, severity |-> "medium",
     reason |-> "Removing a macOS service"],
    [re |-> Cat(<<WB, Str(<<"k","i","l","l">>), Plus(ReS), Str(<<"-","9">>), WB>>),
     ic |-> TRUE, severity |-> "medium",
     reason |-> "Force-killing a process"],
    [re |-> Cat(<<WB, Str(<<"k","i","l","l","a","l","l">>), WB>>),
     ic |-> TRUE, severity |-> "medium",
     reason |-> "Killing processes by name"],
    [re |-> Cat(<<WB, Str(<<"p","k","i","l","l">>), WB>>),
     ic |-> TRUE, severity |-> "medium",
     reason |-> "Killing processes by pattern"],
    [re |-> Cat(<<WB, Str(<<"s","u","d","o">>), WB>>),
     ic |-> TRUE, severity |-> "medium",
     reason |-> "Running with elevated privileges (sudo)"],
    [re |-> Cat(<<WB, Str(<<"m","v">>), Plus(ReS), Lit("/"), ReS>>),
     ic |-> TRUE, severity |-> "high",
     reason |-> "Moving from root filesystem"],
    [re |-> Cat(<<Lit(">"), Star(ReS), Str(<<"/","e","t","c","/">>)>>),
     ic |-> TRUE, severity |-> "high",
     reason |-> "Overwriting system config"],
    [re |-> Cat(<<WB, Str(<<"t","r","u","n","c","a","t","e">>), WB>>),
     ic |-> TRUE, severity |-> "medium",
     reason |-> "Truncating a file"],
    [re |-> Cat(<<WB, Str(<<"s","h","r","e","d">>), WB>>),
     ic |-> TRUE, severity |-> "high",
     reason |-> "Securely erasing a file (unrecoverable)"],
    [re |-> Cat(<<WB, Str(<<"c","u","r","l">>), WB, Star(Dot), Lit("|"), Star(ReS), Opt(Str(<<"b","a">>)), Str(<<"s","h">>), WB>>),
     ic |-> TRUE, severity |-> "high",
     reason |-> "Piping remote script to shell"],
    [re |-> Cat(<<WB, Str(<<"w","g","e","t">>), WB, Star(Dot), Lit("|"), Star(ReS), Opt(Str(<<"b","a">>)), Str(<<"s","h">>), WB>>),
     ic |-> TRUE, severity |-> "high",
     reason |-> "Piping remote script to shell"],
    [re |-> Cat(<<WB, Str(<<"c","u","r","l">>), WB, Star(Dot), Lit("|"), Star(ReS), Str(<<"s","u","d","o">>), WB>>),
     ic |-> TRUE, severity |-> "critical",
     reason |-> "Piping remote script to sudo"],
    [re |-> Cat(<<WB, Str(<<"w","g","e","t">>), WB, Star(Dot), Lit("|"), Star(ReS), Str(<<"s","u","d","o">>), WB>>),
     ic |-> TRUE, severity |-> "critical",
     reason |-> "Piping remote script to sudo"],
    [re |-> Cat(<<WB, Str(<<"g","i","t">>), Alt(<<Cat(<<Plus(ReS), Str(<<"p","u","s","h">>), Plus(ReS), Star(Dot), Str(<<"-","-","f","o","r","c","e">>), WB>>), Cat(<<Plus(ReS), Str(<<"p","u","s","h">>), Plus(ReS), Str(<<"-","f">>), WB>>)>>)>>),
     ic |-> TRUE, severity |-> "high",
     reason |-> "Force-pushing - can destroy remote history"],
    [re |-> Cat(<<WB, Str(<<"g","i","t">>), Plus(ReS), Str(<<"r","e","s","e","t">>), Plus(ReS), Str(<<"-","-","h","a","r","d">>), WB>>),
     ic |-> TRUE, severity |-> "high",
     reason |-> "Hard reset - discards uncommitted changes"],
    [re |-> Cat(<<WB, Str(<<"g","i","t">>), Plus(ReS), Str(<<"c","l","e","a","n">>), Plus(ReS), Star(Dot), Str(<<"-","f">>)>>),
     ic |-> TRUE, severity |-> "medium",
     reason |-> "Removing untracked files"],
    [re |-> Cat(<<WB, Str(<<"c","r","o","n","t","a","b">>), Plus(ReS), Str(<<"-","r">>), WB>>),
     ic |-> TRUE, severity |-> "high",
     reason |-> "Deleting all cron jobs"],
    [re |-> Cat(<<WB, Str(<<"i","p","t","a","b","l","e","s">>), Plus(ReS), Str(<<"-","F">>), WB>>),
     ic |-> TRUE, severity |-> "high",
     reason |-> "Flushing all firewall rules"],
    [re |-> Cat(<<WB, Str(<<"u","f","w">>), Plus(ReS), Str(<<"d","i","s","a","b","l","e">>), WB>>),
     ic |-> TRUE, severity |-> "high",
     reason |-> "Disabling firewall"],
    [re |-> Cat(<<WB, Str(<<"d","o","c","k","e","r">>), Plus(ReS), Str(<<"s","y","s","t","e","m">>), Plus(ReS), Str(<<"p","r","u","n","e">>), WB>>),
     ic |-> TRUE, severity |-> "medium",
     reason |-> "Removing unused Docker data"],
    [re |-> Cat(<<WB, Str(<<"d","o","c","k","e","r">>), Plus(ReS), Str(<<"r","m">>), WB>>),
     ic |-> TRUE, severity |-> "medium",
     reason |-> "Removing Docker containers"],
    [re |-> Cat(<<WB, Str(<<"d","o","c","k","e","r">>), Plus(ReS), Str(<<"r","m","i">>), WB>>),
     ic |-> TRUE, severity |-> "medium",
     reason |-> "Removing Docker images"],
    [re |-> Cat(<<WB, Str(<<"r","s","y","n","c">>), WB, Star(Dot), Str(<<"-","-","d","e","l","e","t","e">>), WB>>),
     ic |-> TRUE, severity |-> "medium",
     reason |-> "Syncing with file deletion at destination"],
    [re |-> Cat(<<WB, Str(<<"e","x","p","o","r","t">>), Alt(<<Cat(<<Plus(ReS), Str(<<"P","A","T","H">>), Star(ReS), Lit("="), Star(ReS), Eol>>), Cat(<<Plus(ReS), Str(<<"P","A","T","H">>), Star(ReS), Lit("="), Star(ReS), Opt(Cls({"'"} \cup {"\""})), Star(ReS), Opt(Cls({"'"} \cup {"\""})), Star(ReS), Eol>>)>>)>>),
     ic |-> TRUE, severity |-> "high",
     reason |-> "Clearing PATH - will break the shell"],
    [re |-> Cat(<<WB, Str(<<"u","n","s","e","t">>), Plus(ReS), Str(<<"P","A","T","H">>), WB>>),
     ic |-> TRUE, severity |-> "high",
     reason |-> "Unsetting PATH - will break the shell"],
    [re |-> Cat(<<Str(<<":","(",")">>), Star(ReS), Lit("{"), Star(ReS), Lit(":"), Star(ReS), Lit("|"), Star(ReS), Lit(":"), Star(ReS), Lit("&"), Star(ReS), Lit("}"), Star(ReS), Lit(";"), Star(ReS), Lit(":")>>),
     ic |-> FALSE, severity |-> "critical",
     reason |-> "Fork bomb"],
    [re |-> Cat(<<WB, Str(<<"f","o","r","m","a","t">>), Plus(ReS), Cls({"a","b","c","d","e","f","g","h","i","j","k","l","m","n","o","p","q","r","s","t","u","v","w","x","y","z"}), Lit(":")>>),
     ic |-> TRUE, severity |-> "critical",
     reason |-> "Disk format (Windows)"],
    [re |-> Cat(<<WB, Str(<<"d","e","l">>), Plus(ReS), Str(<<"/","s">>), WB>>),
     ic |-> TRUE, severity |-> "high",
     reason |-> "Recursive file deletion (Windows)"],
    [re |-> Cat(<<WB, Str(<<"r","d">>), Plus(ReS), Str(<<"/","s">>), WB>>),
     ic |-> TRUE, severity |-> "high",
     reason |-> "Recursive directory removal (Windows)"]
>>

SafetyWarning(severity, reason) == [severity |-> severity, reason |-> reason]

RECURSIVE CheckRules(_, _, _)
\* The loop of check_command from rule k on; warnings is the list so far.
CheckRules(cmd, k, warnings) ==
    IF k > Len(_RULES) THEN warnings
    ELSE LET rule == _RULES[k]
             seen_reasons == {warnings[j].reason : j \in DOMAIN warnings}
         IN  IF Search(rule.re, cmd, rule.ic) /\ rule.reason \notin seen_reasons
             THEN CheckRules(cmd, k + 1,
                      Append(warnings, SafetyWarning(rule.severity, rule.reason)))
             ELSE CheckRules(cmd, k + 1, warnings)

check_command(command) == CheckRules(Strip(command), 1, <<>>)

(***************************************************************************)
(* The program's state                                                     *)
(***************************************************************************)

VARIABLES
    session_allowed,  \* allowlist._session_allowed
    allowed_file,     \* ~/.termai/allowed.json (ALLOWED_FILE)
    disabled_file,    \* ~/.termai/disabled_builtins.json
    pre_hooks,        \* PluginRegistry._pre_hooks
    history_log,      \* ~/.termai/history.jsonl: one entry per log_command
    process_log,      \* ~/.termai/processes.jsonl: one entry per log_process
    ctx,              \* SessionContext: history and the cwd refreshes
    spawned,          \* every subprocess.run call, in the order they start
    args,             \* the call being run: entry point and its arguments
    pc,               \* where the calling (coordinating) thread is
    pe,               \* the frame of preview_and_execute
    plan,             \* the Plan and its Steps
    ep,               \* the frame of execute_plan / _execute_wave_parallel
    pool,             \* the ThreadPoolExecutor's futures
    bt,               \* the frame of preview_and_execute_batch / _run_parallel
    rw,               \* the frame of resolve_waves
    tr,               \* the calls on the trust stores
    ck,               \* the frame of check_command
    post_hooked,      \* the commands run_post_hooks was called with
    lg,               \* the command log as written, and the frames of log_command
    tty               \* the output lock and what the workers print

vars == <<session_allowed, allowed_file, disabled_file, pre_hooks, history_log,
          process_log, ctx, spawned, args, pc, pe, plan, ep, pool, bt, rw, tr,
          ck, post_hooked, lg, tty>>

(***************************************************************************)
(* allowlist.py: the three trust tiers.                                    *)
(***************************************************************************)

\* What a raising call returns in place of its value.
ValueError == <<"ValueError">>

\* shlex.split(s) in POSIX mode: the lexer's state machine, one character
\* at a time. state is " " (between tokens), "a" (in a token), a quote
\* character, or "\\" (after a backslash, with escapedstate to return to);
\* quoted records that the token met a quote. The result is the list of
\* tokens, or ValueError (no closing quotation, no escaped character).
RECURSIVE ShlexRun(_, _, _, _, _, _, _)
ShlexRun(s, i, state, escapedstate, token, quoted, parts) ==
    IF i > Len(s)
    THEN IF state \in {"\"", "'", "\\"} THEN ValueError
         ELSE IF token # <<>> \/ quoted THEN Append(parts, token) ELSE parts
    ELSE LET c == s[i]
         IN  CASE state = " " ->
                    IF c \in SpaceChars
                    THEN ShlexRun(s, i + 1, " ", escapedstate, <<>>, FALSE, parts)
                    ELSE IF c = "\\"
                    THEN ShlexRun(s, i + 1, "\\", "a", token, quoted, parts)
                    ELSE IF c \in {"\"", "'"}
                    THEN ShlexRun(s, i + 1, c, escapedstate, token, TRUE, parts)
                    ELSE ShlexRun(s, i + 1, "a", escapedstate, <<c>>, quoted, parts)
               [] state \in {"\"", "'"} ->
                    IF c = state
                    THEN ShlexRun(s, i + 1, "a", escapedstate, token, TRUE, parts)
                    ELSE IF c = "\\" /\ state = "\""
                    THEN ShlexRun(s, i + 1, "\\", state, token, TRUE, parts)
                    ELSE ShlexRun(s, i + 1, state, escapedstate,
                                  Append(token, c), TRUE, parts)
               [] state = "\\" ->
                    IF escapedstate \in {"\"", "'"} /\ c # "\\" /\ c # escapedstate
                    THEN ShlexRun(s, i + 1, escapedstate, escapedstate,
                                  token \o <<"\\", c>>, quoted, parts)
                    ELSE ShlexRun(s, i + 1, escapedstate, escapedstate,
                                  Append(token, c), quoted, parts)
               [] state = "a" ->
                    IF c \in SpaceChars
                    THEN ShlexRun(s, i + 1, " ", escapedstate, <<>>, FALSE,
                                  IF token # <<>> \/ quoted
                                  THEN Append(parts, token) ELSE parts)
                    ELSE IF c \in {"\"", "'"}
                    THEN ShlexRun(s, i + 1, c, escapedstate, token, quoted, parts)
                    ELSE IF c = "\\"
                    THEN ShlexRun(s, i + 1, "\\", "a", token, quoted, parts)
                    ELSE ShlexRun(s, i + 1, "a", escapedstate,
                                  Append(token, c), quoted, parts)

shlex_split(s) == ShlexRun(s, 1, " ", " ", <<>>, FALSE, <<>>)

\* " ".join(parts)
RECURSIVE JoinSpace(_)
JoinSpace(parts) ==
    IF parts = <<>> THEN <<>>
    ELSE IF Len(parts) = 1 THEN parts[1]
    ELSE parts[1] \o <<" ">> \o JoinSpace(Tail(parts))

Min(a, b) == IF a <= b THEN a ELSE b

\* The key a command is stored under: its first two tokens.
_normalize(command) ==
    LET parts == shlex_split(Strip(command))
    IN  IF parts = ValueError THEN ValueError
        ELSE IF parts = <<>> THEN Strip(command)
        ELSE JoinSpace(SubSeq(parts, 1, Min(2, Len(parts))))

\* A persisted store: the file is missing, unreadable or malformed JSON
\* ("invalid"), valid JSON that is not an array ("notlist"), or an array
\* ("list", items: its elements; the loader makes a set of them, so the
\* order json.dumps(sorted(...)) wrote them in is not kept). An array may
\* also hold an element that is not a string ("mixed": items are its
\* strings, beside them it holds a number or null).
MissingFile == [kind |-> "missing", items |-> {}]
ListFile(items) == [kind |-> "list", items |-> items]

\* _load_user_allowed and _load_disabled_builtins: the same code on two
\* files. The strings of the set they return.
LoadSet(file) == IF file.kind \in {"list", "mixed"} THEN file.items ELSE {}

\* _save_user_allowed and _save_disabled_builtins when the write succeeds.
SaveSet(items) == ListFile(items)

_DEFAULT_SAFE_PREFIXES == {
    \* filesystem inspection
    <<"l","s">>,
    <<"l","l">>,
    <<"l","a">>,
    <<"e","x","a">>,
    <<"e","z","a">>,
    <<"t","r","e","e">>,
    <<"f","i","n","d">>,
    <<"l","o","c","a","t","e">>,
    <<"s","t","a","t">>,
    <<"f","i","l","e">>,
    <<"w","c">>,
    <<"d","u">>,
    <<"d","f">>,
    \* reading
    <<"c","a","t">>,
    <<"h","e","a","d">>,
    <<"t","a","i","l">>,
    <<"l","e","s","s">>,
    <<"m","o","r","e">>,
    <<"b","a","t">>,
    <<"b","a","t","c","a","t">>,
    \* text processing (read-only)
    <<"g","r","e","p">>,
    <<"r","g">>,
    <<"r","i","p","g","r","e","p">>,
    <<"a","g">>,
    <<"a","c","k">>,
    <<"s","e","d">>,
    <<"a","w","k">>,
    <<"s","o","r","t">>,
    <<"u","n","i","q">>,
    <<"c","u","t">>,
    <<"t","r">>,
    <<"d","i","f","f">>,
    <<"c","o","m","m">>,
    <<"j","q">>,
    <<"y","q">>,
    \* system info
    <<"p","w","d">>,
    <<"w","h","o","a","m","i">>,
    <<"i","d">>,
    <<"h","o","s","t","n","a","m","e">>,
    <<"u","n","a","m","e">>,
    <<"u","p","t","i","m","e">>,
    <<"d","a","t","e">>,
    <<"c","a","l">>,
    <<"e","n","v">>,
    <<"p","r","i","n","t","e","n","v">>,
    <<"e","c","h","o">>,
    <<"p","r","i","n","t","f">>,
    <<"w","h","i","c","h">>,
    <<"w","h","e","r","e">>,
    <<"t","y","p","e">>,
    <<"c","o","m","m","a","n","d">>,
    <<"t","o","p">>,
    <<"h","t","o","p">>,
    <<"b","t","o","p">>,
    <<"p","s">>,
    <<"p","g","r","e","p">>,
    <<"l","s","o","f">>,
    <<"f","r","e","e">>,
    <<"v","m","s","t","a","t">>,
    <<"i","o","s","t","a","t">>,
    <<"n","p","r","o","c">>,
    <<"a","r","c","h">>,
    <<"s","w","_","v","e","r","s">>,
    \* network inspection
    <<"p","i","n","g">>,
    <<"d","i","g">>,
    <<"n","s","l","o","o","k","u","p">>,
    <<"h","o","s","t">>,
    <<"t","r","a","c","e","r","o","u","t","e">>,
    <<"m","t","r">>,
    <<"i","f","c","o","n","f","i","g">>,
    <<"i","p">>,
    <<"s","s">>,
    <<"n","e","t","s","t","a","t">>,
    <<"c","u","r","l">>,
    <<"w","g","e","t">>,
    <<"h","t","t","p","i","e">>,
    \* git (read-only)
    <<"g","i","t"," ","s","t","a","t","u","s">>,
    <<"g","i","t"," ","l","o","g">>,
    <<"g","i","t"," ","d","i","f","f">>,
    <<"g","i","t"," ","s","h","o","w">>,
    <<"g","i","t"," ","b","r","a","n","c","h">>,
    <<"g","i","t"," ","t","a","g">>,
    <<"g","i","t"," ","r","e","m","o","t","e">>,
    <<"g","i","t"," ","s","t","a","s","h"," ","l","i","s","t">>,
    <<"g","i","t"," ","s","h","o","r","t","l","o","g">>,
    <<"g","i","t"," ","b","l","a","m","e">>,
    <<"g","i","t"," ","l","s","-","f","i","l","e","s">>,
    <<"g","i","t"," ","l","s","-","t","r","e","e">>,
    \* package info
    <<"b","r","e","w"," ","l","i","s","t">>,
    <<"b","r","e","w"," ","i","n","f","o">>,
    <<"b","r","e","w"," ","s","e","a","r","c","h">>,
    <<"p","i","p"," ","l","i","s","t">>,
    <<"p","i","p"," ","s","h","o","w">>,
    <<"p","i","p"," ","f","r","e","e","z","e">>,
    <<"n","p","m"," ","l","i","s","t">>,
    <<"n","p","m"," ","l","s">>,
    <<"n","p","m"," ","i","n","f","o">>,
    <<"n","p","m"," ","o","u","t","d","a","t","e","d">>,
    <<"c","a","r","g","o"," ","-","-","v","e","r","s","i","o","n">>,
    <<"r","u","s","t","c"," ","-","-","v","e","r","s","i","o","n">>,
    <<"g","o"," ","v","e","r","s","i","o","n">>,
    <<"n","o","d","e"," ","-","-","v","e","r","s","i","o","n">>,
    <<"p","y","t","h","o","n"," ","-","-","v","e","r","s","i","o","n">>,
    <<"j","a","v","a"," ","-","v","e","r","s","i","o","n">>,
    \* docker (read-only)
    <<"d","o","c","k","e","r"," ","p","s">>,
    <<"d","o","c","k","e","r"," ","i","m","a","g","e","s">>,
    <<"d","o","c","k","e","r"," ","s","t","a","t","s">>,
    <<"d","o","c","k","e","r"," ","l","o","g","s">>,
    <<"d","o","c","k","e","r"," ","i","n","s","p","e","c","t">>,
    <<"d","o","c","k","e","r"," ","v","e","r","s","i","o","n">>,
    \* misc
    <<"m","a","n">>,
    <<"t","l","d","r">>,
    <<"h","i","s","t","o","r","y">>
}

\* A variant that matches on the entry alone, with no space after it.
PrefixMatchNoSpace(cmd_lower, entry) ==
    cmd_lower = entry \/ StartsWith(cmd_lower, entry)

\* An entry matches a command that equals it or starts with it and a space.
PrefixMatch(cmd_lower, entry) ==
    cmd_lower = entry \/ StartsWith(cmd_lower, entry \o <<" ">>)

\* A variant that reads the disabled prefixes once, when the module is
\* loaded, and not at each call.
ActivePrefixesAtImport(disabled) == _DEFAULT_SAFE_PREFIXES

_get_active_safe_prefixes(disabled) == _DEFAULT_SAFE_PREFIXES \ LoadSet(disabled)

_is_builtin_safe(command, disabled) ==
    LET cmd_lower == Lower(command)
    IN  \E prefix \in _get_active_safe_prefixes(disabled) :
            PrefixMatch(cmd_lower, prefix)

_matches_allow_list(command, allowed) ==
    LET cmd_lower == Strip(Lower(command))
    IN  \E entry \in allowed : PrefixMatch(cmd_lower, Lower(entry))

\* should_auto_execute, reading the three stores as they are now.
ShouldAuto(command, disabled, session, permanent) ==
    LET cmd_stripped == Strip(command)
    IN  \/ _is_builtin_safe(cmd_stripped, disabled)
        \/ _matches_allow_list(cmd_stripped, session)
        \/ _matches_allow_list(cmd_stripped, LoadSet(permanent))

should_auto_execute(command) ==
    ShouldAuto(command, disabled_file, session_allowed, allowed_file)

(***************************************************************************)
(* Values shared by the frames                                             *)
(***************************************************************************)

\* Python's None where the other values are strings ("True", "False").
None == "None"
\* None where the other values are text.
NoText == <<"None">>
\* None or one value: <<>> or <<v>>.
Unset == <<>>
Some(v) == <<v>>

\* input() raising instead of returning a line.
EOFError == <<"EOFError">>
KeyboardInterrupt == <<"KeyboardInterrupt">>

PyBool(b) == IF b THEN "True" ELSE "False"

\* --- the texts the model runs on ---
CmdLs      == <<"l","s"," ","-","l","a">>
CmdMkdir   == <<"m","k","d","i","r"," ","o","u","t">>
CmdRmCache == <<"r","m"," ","-","r","f"," ","/","t","m","p","/","c","a","c","h","e">>
CmdRmRoot  == <<"r","m"," ","-","r","f"," ","/">>
CmdFind    == <<"f","i","n","d"," ","."," ","-","d","e","l","e","t","e">>
CmdSudo    == <<"s","u","d","o"," ","l","s">>
CmdMake    == <<"m","a","k","e"," ","a","l","l">>
CmdPipe    == <<"l","s"," ","|"," ","w","c">>
CmdGitStatus == <<"g","i","t"," ","s","t","a","t","u","s"," ","-","s">>
CmdQuote   == <<"l","s"," ","'">>
CmdMkdirBare == <<"m","k","d","i","r">>
CmdRmQuote == <<"r","m"," ","-","r","f"," ","'","a">>
CmdMakeSpaced == <<"m","a","k","e"," "," ","a","l","l">>
CmdMakeQuoted == <<"m","a","k","e"," ","'","a","l","l","'">>

\* The commands of the model: trusted and untrusted, without warning, with
\* medium and high warnings, with a critical warning.
AllCommands == {CmdLs, CmdMkdir, CmdRmCache, CmdRmRoot, CmdFind, CmdSudo,
                CmdMake, CmdPipe, CmdGitStatus, CmdQuote, CmdMkdirBare,
                CmdRmQuote}

\* Commands handed to preview_and_execute.
Commands == {CmdLs, CmdMkdir, CmdRmCache, CmdRmRoot, CmdFind, CmdSudo}

\* What the user can type at a prompt (the line input() returns), or the
\* exception input() raises.
Inputs == { <<"y">>, <<" ","Y","e","s">>, <<"a">>, <<"s">>, <<"n">>, <<>>,
            <<"e","x","e","c","u","t","e">>,
            <<"E","X","E","C","U","T","E"," ">>,
            EOFError, KeyboardInterrupt }

TxtY       == <<"y">>
TxtYes     == <<"y","e","s">>
TxtA       == <<"a">>
TxtS       == <<"s">>
TxtExecute == <<"e","x","e","c","u","t","e">>

\* How a child process can end: exit code 0, exit code 0 after it wrote
\* bytes that are not UTF-8, a non-zero exit code, or subprocess.run raising
\* (the launch failed). No caller passes a timeout to run_command, and the
\* other calls of subprocess.run have none, so TimeoutExpired is not among
\* the outcomes.
Outcomes == {"exit0", "exit0_bytes", "exit1", "error"}

\* The child process exited with code 0.
ExitedZero(outcome) == outcome \in {"exit0", "exit0_bytes"}

\* Contents of the stores when the program starts.
KeyRm    == <<"r","m">>
KeyMkdir == <<"m","k","d","i","r">>
KeyLs    == <<"l","s">>
KeyFind  == <<"f","i","n","d">>
KeyGitStatus == <<"g","i","t"," ","s","t","a","t","u","s">>
AllowedFiles  == {MissingFile, ListFile({KeyMkdir, KeyRm, KeyFind})}
DisabledFiles == {MissingFile, ListFile({KeyLs})}

\* A pre-execution hook: returns result for the command it rewrites and
\* None (keep the command) for every other.
Hook(match, result) == [match |-> match, result |-> result]
HookLists == {<<>>, <<Hook(CmdLs, CmdRmRoot)>>}

(***************************************************************************)
(* plugins.py                                                              *)
(***************************************************************************)

RECURSIVE RunHooks(_, _)
RunHooks(hooks, command) ==
    IF hooks = <<>> THEN command
    ELSE LET result == IF command = Head(hooks).match
                       THEN Head(hooks).result ELSE NoText
         IN  RunHooks(Tail(hooks), IF result # NoText THEN result ELSE command)

run_pre_hooks(command) == RunHooks(pre_hooks, command)

(***************************************************************************)
(* logger.py, context.py, and the record of child processes                *)
(***************************************************************************)

\* log_command: one line appended to the history log.
LogEntry(command, success) == [command |-> command, success |-> success]

\* ctx.record(command); ctx.refresh_cwd()
CtxAfterRun(c, command) ==
    [history |-> Append(c.history, command), refreshes |-> c.refreshes + 1]

\* A subprocess.run call: the text launched, the text that was classified
\* and approved, the function that launched it, the plan step it runs (its
\* position in plan.steps, 0 outside a plan) and how it was approved.
Spawn(command, checked, by, step, approval) ==
    [command |-> command, checked |-> checked, by |-> by, step |-> step,
     approval |-> approval]

(***************************************************************************)
(* executor.py: preview_and_execute, _prompt_with_options, run_command     *)
(***************************************************************************)

IdlePE == [pc |-> "idle", command |-> NoText, auto_yes |-> FALSE,
           dry_run |-> FALSE, warnings |-> <<>>, raw |-> NoText,
           answer |-> NoText, asked |-> FALSE, result |-> None]

\* The answer a frame holds when the call was auto-approved (line 70).
AutoApproved == <<"a","u","t","o">>

\* The frame of a call preview_and_execute(command, auto_yes=, dry_run=).
CallPE(command, auto_yes, dry_run) ==
    [IdlePE EXCEPT !.pc = "entry", !.command = command,
                   !.auto_yes = auto_yes, !.dry_run = dry_run]

\* check_command on the texts of the model, evaluated once: the classifier
\* is a pure function, so the table holds what each call returns.
WarningsOf == [c \in AllCommands |-> check_command(c)]

CheckCommand(command) ==
    IF command \in DOMAIN WarningsOf THEN WarningsOf[command]
    ELSE check_command(command)

HasCritical(warnings) ==
    \E k \in DOMAIN warnings : warnings[k].severity = "critical"

\* A variant of the approval decision that looks at dry_run last.
ApprovalBranchDryRunLast(warnings, dry_run, auto_yes, auto_exec) ==
    IF warnings = <<>> /\ (auto_yes \/ auto_exec) THEN "approved"
    ELSE IF dry_run THEN "return"
    ELSE IF HasCritical(warnings) THEN "confirm"
    ELSE "prompt"

\* A variant of the approval decision in which auto_yes alone approves.
ApprovalBranchAutoYesFirst(warnings, dry_run, auto_yes, auto_exec) ==
    IF dry_run THEN "return"
    ELSE IF auto_yes \/ (warnings = <<>> /\ auto_exec) THEN "approved"
    ELSE IF HasCritical(warnings) THEN "confirm"
    ELSE "prompt"

\* The approval decision (executor.py 51-88): where the call goes next.
ApprovalBranch(warnings, dry_run, auto_yes, auto_exec) ==
    IF dry_run THEN "return"
    ELSE IF warnings = <<>> /\ (auto_yes \/ auto_exec) THEN "approved"
    ELSE IF HasCritical(warnings) THEN "confirm"
    ELSE "prompt"

PE_Decide ==
    /\ pe.pc = "entry"
    /\ LET warnings == CheckCommand(pe.command)
           branch == ApprovalBranch(warnings, pe.dry_run, pe.auto_yes,
                                    should_auto_execute(pe.command))
       IN  pe' = [pe EXCEPT !.warnings = warnings, !.pc = branch,
                            !.answer = IF branch = "approved"
                                       THEN AutoApproved ELSE NoText]
    /\ UNCHANGED <<session_allowed, allowed_file, disabled_file, pre_hooks,
                   history_log, process_log, ctx, spawned, args, pc, plan,
                   ep, pool, bt, rw, tr, ck, post_hooked, lg, tty>>

\* input(...).strip().lower(), or the exception
Answer(in) ==
    IF in \in {EOFError, KeyboardInterrupt} THEN in ELSE Lower(Strip(in))

\* A variant of the force-confirm prompt that also takes y.
ForceConfirmAcceptsYes(in) ==
    /\ in \notin {EOFError, KeyboardInterrupt}
    /\ Answer(in) \in {TxtExecute, TxtY}

\* Whether the force-confirm prompt (executor.py 76-86) lets the command run.
ForceConfirmAccepts(in) ==
    /\ in \notin {EOFError, KeyboardInterrupt}
    /\ Answer(in) = TxtExecute

PE_ForceConfirm(in) ==
    /\ pe.pc = "confirm"
    /\ pe' = [pe EXCEPT !.raw = in, !.asked = TRUE, !.answer = Answer(in),
                        !.pc = IF ForceConfirmAccepts(in)
                               THEN "approved" ELSE "return"]
    /\ UNCHANGED <<session_allowed, allowed_file, disabled_file, pre_hooks,
                   history_log, process_log, ctx, spawned, args, pc, plan,
                   ep, pool, bt, rw, tr, ck, post_hooked, lg, tty>>

\* A variant of _prompt_with_options that takes end-of-input for a yes.
PromptChoiceEofYes(in) ==
    LET answer == Answer(in)
    IN  IF in = KeyboardInterrupt THEN NoText
        ELSE IF in = EOFError \/ answer \in {TxtY, TxtYes} THEN TxtY
        ELSE IF answer = TxtA THEN TxtA
        ELSE IF answer = TxtS THEN TxtS
        ELSE NoText

\* A variant of _prompt_with_options whose default answer is yes.
PromptChoiceDefaultYes(in) ==
    LET answer == Answer(in)
    IN  IF in \in {EOFError, KeyboardInterrupt} THEN NoText
        ELSE IF answer = TxtA THEN TxtA
        ELSE IF answer = TxtS THEN TxtS
        ELSE TxtY

\* _prompt_with_options: the choice it returns, None to cancel.
PromptChoice(in) ==
    LET answer == Answer(in)
    IN  IF in \in {EOFError, KeyboardInterrupt} THEN NoText
        ELSE IF answer \in {TxtY, TxtYes} THEN TxtY
        ELSE IF answer = TxtA THEN TxtA
        ELSE IF answer = TxtS THEN TxtS
        ELSE NoText

\* add_to_permanent: the file after it.
add_to_permanent(command) ==
    SaveSet(LoadSet(allowed_file) \cup {_normalize(command)})

\* add_to_session: the session set after it.
add_to_session(command) == session_allowed \cup {_normalize(command)}

PE_Prompt(in) ==
    /\ pe.pc = "prompt"
    /\ LET choice == PromptChoice(in)
           raises == choice \in {TxtA, TxtS} /\ _normalize(pe.command) = ValueError
       IN  /\ pe' = [pe EXCEPT !.raw = in, !.asked = TRUE, !.answer = choice,
                               !.pc = IF raises THEN "raised"
                                      ELSE IF choice = NoText THEN "return"
                                      ELSE "approved"]
           /\ allowed_file' = IF choice = TxtA /\ ~raises
                              THEN add_to_permanent(pe.command)
                              ELSE allowed_file
           /\ session_allowed' = IF choice = TxtS /\ ~raises
                                 THEN add_to_session(pe.command)
                                 ELSE session_allowed
           /\ pc' = IF raises THEN "raised" ELSE pc
    /\ UNCHANGED <<disabled_file, pre_hooks, history_log, process_log, ctx,
                   spawned, args, plan, ep, pool, bt, rw, tr, ck, post_hooked,
                   lg, tty>>

\* Lines 71-73 and 92-94, and run_command: the hooks rewrite the command,
\* the child process runs to its end, the context and the log are updated.
PE_Run(outcome) ==
    /\ pe.pc = "approved"
    /\ LET command == run_pre_hooks(pe.command)
           success == ExitedZero(outcome)
       IN  /\ spawned' = Append(spawned,
                  Spawn(command, pe.command, "run_command",
                        IF pc = "step_wait" THEN ep.cur ELSE 0, pe.answer))
           /\ ctx' = CtxAfterRun(ctx, command)
           /\ history_log' = Append(history_log, LogEntry(command, success))
           /\ post_hooked' = Append(post_hooked, command)
           /\ pe' = [pe EXCEPT !.pc = "return", !.result = PyBool(success)]
    /\ UNCHANGED <<session_allowed, allowed_file, disabled_file, pre_hooks,
                   process_log, args, pc, plan, ep, pool, bt, rw, tr, ck, lg,
                   tty>>

(***************************************************************************)
(* cli.py: one command through preview_and_execute                         *)
(***************************************************************************)

NoPlan == [steps |-> <<>>, status |-> "pending", total_duration_ms |-> Unset]
NoEP == [waves |-> <<>>, wi |-> 0, failed_ids |-> {}, runnable |-> <<>>,
         needs_prompt |-> <<>>, safe_batch |-> <<>>, cur |-> 0,
         answer |-> NoText]
\* The cap of the worker pools: min(len(...), 4).
MaxWorkers == 4

\* resolve_waves not called: pc, the passes the for loop has left, and the
\* locals completed, waves and remaining (positions in plan.steps).
NoRW == [pc |-> "idle", n |-> 0, completed |-> {}, waves |-> <<>>,
         remaining |-> <<>>]

\* No settings call made yet: how many were made, the last one (its name,
\* its argument, whether the write of the file succeeded, what it returned
\* or raised, the stores before it) and the one before it.
NoCall == [op |-> "None", arg |-> NoText, write |-> "None",
           result |-> "None", allowed |-> MissingFile,
           disabled |-> MissingFile, session |-> {}]
NoTR == [count |-> 0, last |-> NoCall, prev |-> NoCall]

\* check_command before it is called.
NoCK == [pc |-> "idle", cmd |-> NoText, k |-> 0, warnings |-> <<>>]

\* Bound of the model: the worker threads that call log_command together.
MaxThreads == 3

\* A thread that is not in log_command.
IdleLog == [pc |-> "idle", success |-> FALSE, offset |-> 0]

\* The log file is empty and no thread is in log_command.
NoLG == [file |-> <<>>, th |-> [t \in 1..MaxThreads |-> IdleLog]]

\* A thread that prints nothing: the statements it has left, and whether it
\* is inside a print call.
IdlePrint == [prog |-> <<>>, writing |-> FALSE]

\* _print_lock is free (held by thread 0) and no worker is printing.
NoTTY == [lock |-> 0, th |-> [t \in 1..MaxThreads |-> IdlePrint]]

\* No pool: the futures by position, the order they were submitted in, what
\* each returned, and the function they run.
NoPool == [max_workers |-> 0, state |-> <<>>, order |-> <<>>,
           result |-> <<>>, fn |-> "None"]

NoBT == [batches |-> <<>>, bi |-> 0, i |-> 0, approved |-> <<>>,
         results |-> <<>>, keep |-> FALSE]

InitStores ==
    /\ session_allowed \in {{}, {KeyRm}}
    /\ allowed_file \in AllowedFiles
    /\ disabled_file \in DisabledFiles

InitCommon ==
    /\ tty = NoTTY
    /\ lg = NoLG
    /\ post_hooked = <<>>
    /\ ck = NoCK
    /\ tr = NoTR
    /\ rw = NoRW
    /\ history_log = <<>>
    /\ process_log = <<>>
    /\ ctx = [history |-> <<>>, refreshes |-> 0]
    /\ spawned = <<>>
    /\ pc = "start"
    /\ pe = IdlePE
    /\ ep = NoEP
    /\ pool = NoPool
    /\ bt = NoBT

InitSingle ==
    /\ InitStores
    /\ InitCommon
    /\ pre_hooks \in HookLists
    /\ \E command \in Commands, auto_yes \in BOOLEAN, dry_run \in BOOLEAN :
          args = [entry |-> "preview_and_execute", command |-> command,
                  commands |-> <<>>, auto_yes |-> auto_yes,
                  dry_run |-> dry_run, results |-> <<>>]
    /\ plan = NoPlan

\* cli.py 219-225
CliCall ==
    /\ pc = "start"
    /\ args.entry = "preview_and_execute"
    /\ pe' = CallPE(args.command, args.auto_yes, args.dry_run)
    /\ pc' = "cli_wait"
    /\ UNCHANGED <<session_allowed, allowed_file, disabled_file, pre_hooks,
                   history_log, process_log, ctx, spawned, args, plan, ep,
                   pool, bt, rw, tr, ck, post_hooked, lg, tty>>

CliReturn ==
    /\ pc = "cli_wait"
    /\ pe.pc = "return"
    /\ args' = [args EXCEPT !.results = <<pe.result>>]
    /\ pe' = IdlePE
    /\ pc' = "done"
    /\ UNCHANGED <<session_allowed, allowed_file, disabled_file, pre_hooks,
                   history_log, process_log, ctx, spawned, plan, ep, pool, bt,
                   rw, tr, ck, post_hooked, lg, tty>>

PreviewAndExecute ==
    \/ PE_Decide
    \/ \E in \in Inputs : PE_ForceConfirm(in)
    \/ \E in \in Inputs : PE_Prompt(in)
    \/ \E outcome \in Outcomes : PE_Run(outcome)

NextSingle == CliCall \/ CliReturn \/ PreviewAndExecute

SpecSingle == InitSingle /\ [][NextSingle]_vars

(***************************************************************************)
(* orchestrator.py: Step, Plan, resolve_waves                              *)
(***************************************************************************)

\* A Step; depends_on is kept as the set of the ids the list holds (the code
\* only tests membership of its elements).
Step(id, command, depends_on) ==
    [id |-> id, command |-> command, depends_on |-> depends_on,
     status |-> "pending", exit_code |-> Unset, duration_ms |-> Unset]

Terminal == {"success", "failed", "skipped"}

\* The elapsed time int((time.monotonic() - t0) * 1000): some number.
Elapsed == Some("ms")

\* The steps of a list of positions, as the set of their positions.
Positions(seq) == {seq[k] : k \in DOMAIN seq}

\* [s for s in seq if test(s)] on a list of positions
Filter(seq, Test(_)) == SelectSeq(seq, Test)

\* A variant of the fallback that emits the remaining steps last to first.
SingletonWavesReversed(waves, remaining) ==
    waves \o [k \in DOMAIN remaining |->
                 <<remaining[Len(remaining) + 1 - k]>>]

\* A variant of the fallback that leaves the remaining steps out.
DropRemaining(waves, remaining) == waves

\* A variant of the fallback: the first remaining step alone, then the rest
\* together.
FirstThenRest(waves, remaining) ==
    IF Len(remaining) = 1 THEN Append(waves, remaining)
    ELSE waves \o << <<Head(remaining)>>, Tail(remaining) >>

\* A variant of the fallback that puts the remaining steps in one wave.
OneMoreWave(waves, remaining) == Append(waves, remaining)

\* Lines 272-275: no step is ready, so each remaining step becomes a wave of
\* its own, in the order of the list.
SingletonWaves(waves, remaining) ==
    waves \o [k \in DOMAIN remaining |-> <<remaining[k]>>]

\* One pass of the loop of resolve_waves (lines 266-278); n passes are left.
\* Waves and remaining hold positions in steps: the Step objects themselves.
RECURSIVE ResolveLoop(_, _, _, _, _)
ResolveLoop(steps, n, completed, waves, remaining) ==
    IF n = 0 \/ remaining = <<>> THEN waves
    ELSE LET Ready(p) == \A d \in steps[p].depends_on : d \in completed
             wave == Filter(remaining, Ready)
         IN  IF wave = <<>>
             THEN SingletonWaves(waves, remaining)
             ELSE LET completed2 == completed \cup {steps[p].id : p \in Positions(wave)}
                      Left(p) == steps[p].id \notin completed2
                  IN  ResolveLoop(steps, n - 1, completed2,
                                  Append(waves, wave), Filter(remaining, Left))

resolve_waves(steps) ==
    IF steps = <<>> THEN <<>>
    ELSE ResolveLoop(steps, Len(steps) + 1, {}, <<>>,
                     [k \in DOMAIN steps |-> k])

(***************************************************************************)
(* orchestrator.py: execute_plan                                           *)
(***************************************************************************)

\* A variant of the plan confirmation whose default answer is yes.
PlanConfirmedDefaultYes(in) ==
    /\ in \notin {EOFError, KeyboardInterrupt}
    /\ Answer(in) \in {TxtY, TxtYes, <<>>}

\* The answer to "Execute plan? [y/N]" lets the plan run (lines 331-341).
PlanConfirmed(in) ==
    /\ in \notin {EOFError, KeyboardInterrupt}
    /\ Answer(in) \in {TxtY, TxtYes}

\* Lines 343-345: the frame once the plan is to run.
StartEP == [NoEP EXCEPT !.waves = resolve_waves(plan.steps), !.wi = 1]

ExecutePlanDryRun ==
    /\ pc = "start"
    /\ args.entry = "execute_plan"
    /\ args.dry_run
    /\ plan' = [plan EXCEPT !.status = "dry_run"]
    /\ pc' = "done"
    /\ UNCHANGED <<session_allowed, allowed_file, disabled_file, pre_hooks,
                   history_log, process_log, ctx, spawned, args, pe, ep, pool,
                   bt, rw, tr, ck, post_hooked, lg, tty>>

\* Line 333: the answer to "Execute plan? [y/N]" is read (or the read raises).
ExecutePlanAsk(in) ==
    /\ pc = "start"
    /\ args.entry = "execute_plan"
    /\ ~args.dry_run
    /\ ~args.auto_yes
    /\ ep' = [NoEP EXCEPT !.answer = in]
    /\ pc' = "plan_confirm"
    /\ UNCHANGED <<session_allowed, allowed_file, disabled_file, pre_hooks,
                   history_log, process_log, ctx, spawned, args, pe, plan, pool,
                   bt, rw, tr, ck, post_hooked, lg, tty>>

\* Lines 334-341: the plan is cancelled, or goes on to its waves.
ExecutePlanConfirm ==
    /\ pc = "plan_confirm"
    /\ IF PlanConfirmed(ep.answer)
       THEN /\ ep' = StartEP
            /\ pc' = "wave"
            /\ plan' = plan
       ELSE /\ plan' = [plan EXCEPT !.status = "cancelled"]
            /\ pc' = "done"
            /\ ep' = ep
    /\ UNCHANGED <<session_allowed, allowed_file, disabled_file, pre_hooks,
                   history_log, process_log, ctx, spawned, args, pe, pool, bt,
                   rw, tr, ck, post_hooked, lg, tty>>

ExecutePlanAutoYes ==
    /\ pc = "start"
    /\ args.entry = "execute_plan"
    /\ ~args.dry_run
    /\ args.auto_yes
    /\ ep' = StartEP
    /\ pc' = "wave"
    /\ UNCHANGED <<session_allowed, allowed_file, disabled_file, pre_hooks,
                   history_log, process_log, ctx, spawned, args, pe, plan, pool,
                   bt, rw, tr, ck, post_hooked, lg, tty>>

\* Line 354: a dependency of the step is in the failed set.
DependencyFailed(step, failed_ids) ==
    \E d \in step.depends_on : d \in failed_ids

\* A variant of the gate of line 417 that looks at the trust stores only.
NeedsPromptTrustOnly(command, auto_yes) ==
    ~auto_yes /\ ~should_auto_execute(command)

\* Line 417: the step cannot go to the worker pool.
NeedsPrompt(command, auto_yes) ==
    \/ CheckCommand(command) # <<>>
    \/ (~auto_yes /\ ~should_auto_execute(command))

\* A variant of the pool with one worker for each future, whatever their
\* number.
NewPoolUncapped(n, size, fn) ==
    [max_workers |-> size,
     state |-> [k \in 1..n |-> "none"], order |-> <<>>,
     result |-> [k \in 1..n |-> None], fn |-> fn]

\* The pool of _execute_wave_parallel (line 430) before any submit.
NewPool(n, size, fn) ==
    [max_workers |-> Min(size, MaxWorkers),
     state |-> [k \in 1..n |-> "none"], order |-> <<>>,
     result |-> [k \in 1..n |-> None], fn |-> fn]

\* Lines 347-370 up to the first call: the steps of the wave whose
\* dependency failed are skipped; the others are run, alone through
\* _execute_step or together through _execute_wave_parallel, whose lines
\* 412-420 sort them into needs_prompt and safe_batch.
WaveBegin ==
    /\ pc = "wave"
    /\ ep.wi <= Len(ep.waves)
    /\ LET wave == ep.waves[ep.wi]
           Skip(p) == DependencyFailed(plan.steps[p], ep.failed_ids)
           Run(p) == ~Skip(p)
           runnable == Filter(wave, Run)
           Prompted(p) == NeedsPrompt(plan.steps[p].command, args.auto_yes)
           Safe(p) == ~Prompted(p)
       IN  /\ plan' = [plan EXCEPT !.steps =
                  [p \in DOMAIN plan.steps |->
                      IF p \in Positions(wave) /\ Skip(p)
                      THEN [plan.steps[p] EXCEPT !.status = "skipped"]
                      ELSE plan.steps[p]]]
           /\ IF runnable = <<>>
              THEN /\ ep' = [ep EXCEPT !.wi = ep.wi + 1, !.runnable = runnable]
                   /\ pc' = "wave"
              ELSE IF Len(runnable) = 1
              THEN /\ ep' = [ep EXCEPT !.runnable = runnable,
                                       !.needs_prompt = <<>>,
                                       !.safe_batch = <<>>,
                                       !.cur = runnable[1]]
                   /\ pc' = "exec_step"
              ELSE /\ ep' = [ep EXCEPT !.runnable = runnable,
                                       !.needs_prompt = Filter(runnable, Prompted),
                                       !.safe_batch = Filter(runnable, Safe),
                                       !.cur = 0]
                   /\ pc' = "needs_prompt"
    /\ UNCHANGED <<session_allowed, allowed_file, disabled_file, pre_hooks,
                   history_log, process_log, ctx, spawned, args, pe, pool, bt,
                   rw, tr, ck, post_hooked, lg, tty>>

\* Lines 422-430: the next step of needs_prompt goes through _execute_step;
\* after the last one the pool is created, or the call returns when
\* safe_batch is empty.
NeedsPromptNext ==
    /\ pc = "needs_prompt"
    /\ IF ep.needs_prompt # <<>>
       THEN /\ ep' = [ep EXCEPT !.cur = Head(ep.needs_prompt),
                                !.needs_prompt = Tail(ep.needs_prompt)]
            /\ pc' = "exec_step"
            /\ pool' = pool
       ELSE IF ep.safe_batch = <<>>
       THEN /\ ep' = [ep EXCEPT !.wi = ep.wi + 1]
            /\ pc' = "wave"
            /\ pool' = pool
       ELSE /\ pool' = NewPool(Len(plan.steps), Len(ep.safe_batch),
                            "_execute_step_bg")
            /\ pc' = "submit"
            /\ ep' = ep
    /\ UNCHANGED <<session_allowed, allowed_file, disabled_file, pre_hooks,
                   history_log, process_log, ctx, spawned, args, pe, plan, bt,
                   rw, tr, ck, post_hooked, lg, tty>>

(***************************************************************************)
(* orchestrator.py: _execute_step, on the calling thread                   *)
(***************************************************************************)

SetStep(p, status, exit_code) ==
    [plan EXCEPT !.steps[p] = [@ EXCEPT !.status = status,
                                        !.exit_code = exit_code,
                                        !.duration_ms = Elapsed]]

\* What the caller does when _execute_step(step) has returned: lines
\* 366-367 of execute_plan or 424-425 of _execute_wave_parallel add a failed
\* step to failed_ids; execute_plan then goes to the next wave,
\* _execute_wave_parallel to its next step.
AfterStep(p, status) ==
    /\ ep' = [ep EXCEPT
                !.failed_ids = IF status = "failed"
                               THEN @ \cup {plan.steps[p].id} ELSE @,
                !.cur = 0,
                !.wi = IF Len(ep.runnable) = 1 THEN @ + 1 ELSE @]
    /\ pc' = IF Len(ep.runnable) = 1 THEN "wave" ELSE "needs_prompt"

\* Lines 460-467: the step is running; a command with warnings goes to
\* preview_and_execute unless auto_yes is set.
ExecStepStart ==
    /\ pc = "exec_step"
    /\ LET step == plan.steps[ep.cur]
           warnings == CheckCommand(step.command)
       IN  /\ plan' = [plan EXCEPT !.steps[ep.cur].status = "running"]
           /\ IF warnings # <<>> /\ ~args.auto_yes
              THEN /\ pe' = CallPE(step.command, FALSE, FALSE)
                   /\ pc' = "step_wait"
              ELSE /\ pe' = pe
                   /\ pc' = "step_run"
    /\ UNCHANGED <<session_allowed, allowed_file, disabled_file, pre_hooks,
                   history_log, process_log, ctx, spawned, args, ep, pool, bt,
                   rw, tr, ck, post_hooked, lg, tty>>

\* Lines 468-476: the status of the step from what preview_and_execute returned.
StatusOfResult(result) ==
    IF result = "True" THEN "success"
    ELSE IF result = "False" THEN "failed"
    ELSE "skipped"

ExecStepPreviewed ==
    /\ pc = "step_wait"
    /\ pe.pc = "return"
    /\ LET status == StatusOfResult(pe.result)
       IN  /\ plan' = SetStep(ep.cur, status,
                              IF pe.result = "True" THEN Some(0)
                              ELSE plan.steps[ep.cur].exit_code)
           /\ AfterStep(ep.cur, status)
    /\ pe' = IdlePE
    /\ UNCHANGED <<session_allowed, allowed_file, disabled_file, pre_hooks,
                   history_log, process_log, ctx, spawned, args, pool, bt, rw,
                   tr, ck, post_hooked, lg, tty>>

\* The status and exit code a finished child process gives a step on the
\* calling thread (lines 479-486; the child writes to the terminal itself):
\* subprocess.run raising leaves exit_code as it was.
StatusOfOutcome(outcome) ==
    IF ExitedZero(outcome) THEN "success" ELSE "failed"

ExitCodeOfOutcome(outcome, old) ==
    IF ExitedZero(outcome) THEN Some(0)
    ELSE IF outcome = "exit1" THEN Some(1)
    ELSE old

\* The same on a worker (lines 503-516), where subprocess.run captures the
\* output as text: bytes that are not UTF-8 make it raise
\* UnicodeDecodeError, which except Exception takes for a failure.
StatusOfCaptured(outcome) ==
    IF outcome = "exit0" THEN "success" ELSE "failed"

ExitCodeOfCaptured(outcome, old) ==
    IF outcome = "exit0" THEN Some(0)
    ELSE IF outcome = "exit1" THEN Some(1)
    ELSE old

\* Lines 478-497: the command is run as it is.
ExecStepRun(outcome) ==
    /\ pc = "step_run"
    /\ LET step == plan.steps[ep.cur]
           status == StatusOfOutcome(outcome)
       IN  /\ spawned' = Append(spawned,
                  Spawn(step.command, step.command, "_execute_step", ep.cur,
                        NoText))
           /\ plan' = SetStep(ep.cur, status,
                              ExitCodeOfOutcome(outcome, step.exit_code))
           /\ ctx' = CtxAfterRun(ctx, step.command)
           /\ history_log' = Append(history_log,
                  LogEntry(step.command, status = "success"))
           /\ AfterStep(ep.cur, status)
    /\ UNCHANGED <<session_allowed, allowed_file, disabled_file, pre_hooks,
                   process_log, args, pe, pool, bt, rw, tr, ck, post_hooked,
                   lg, tty>>

(***************************************************************************)
(* orchestrator.py: the worker pool of _execute_wave_parallel              *)
(***************************************************************************)

\* Lines 432-435: the next step of safe_batch is marked running and submitted.
SubmitStep ==
    /\ pc = "submit"
    /\ LET k == Len(pool.order) + 1
           p == ep.safe_batch[k]
       IN  /\ plan' = [plan EXCEPT !.steps[p].status = "running"]
           /\ pool' = [pool EXCEPT !.state[p] = "queued",
                                   !.order = Append(@, p)]
           /\ pc' = IF k = Len(ep.safe_batch) THEN "collect" ELSE "submit"
    /\ UNCHANGED <<session_allowed, allowed_file, disabled_file, pre_hooks,
                   history_log, process_log, ctx, spawned, args, pe, ep, bt,
                   rw, tr, ck, post_hooked, lg, tty>>

\* The futures submitted before p that have not finished.
EarlierUnfinished(p) ==
    {q \in Positions(pool.order) :
        /\ pool.state[q] \in {"queued", "running"}
        /\ \E i, j \in DOMAIN pool.order :
              pool.order[i] = q /\ pool.order[j] = p /\ i < j}

\* A worker thread takes the future from the queue (first in, first out, a
\* thread being free) and _execute_step_bg starts its child process.
WorkerStart(p) ==
    /\ pool.fn = "_execute_step_bg"
    /\ p \in DOMAIN pool.state
    /\ pool.state[p] = "queued"
    /\ Cardinality(EarlierUnfinished(p)) < pool.max_workers
    /\ pool' = [pool EXCEPT !.state[p] = "running"]
    /\ spawned' = Append(spawned,
           Spawn(plan.steps[p].command, plan.steps[p].command,
                 "_execute_step_bg", p, NoText))
    /\ UNCHANGED <<session_allowed, allowed_file, disabled_file, pre_hooks,
                   history_log, process_log, ctx, args, pc, pe, plan, ep, bt,
                   rw, tr, ck, post_hooked, lg, tty>>

\* A variant of the worker's end in which the worker itself records the
\* failure of its step in failed_ids.
WorkerFinishRecordsFailure(p, outcome) ==
    /\ pool.fn = "_execute_step_bg"
    /\ p \in DOMAIN pool.state
    /\ pool.state[p] = "running"
    /\ LET step == plan.steps[p]
           status == StatusOfCaptured(outcome)
       IN  /\ plan' = SetStep(p, status,
                              ExitCodeOfCaptured(outcome, step.exit_code))
           /\ history_log' = Append(history_log,
                  LogEntry(step.command, status = "success"))
           /\ ep' = [ep EXCEPT !.failed_ids =
                        IF status = "failed" THEN @ \cup {step.id} ELSE @]
    /\ pool' = [pool EXCEPT !.state[p] = "done"]
    /\ UNCHANGED <<session_allowed, allowed_file, disabled_file, pre_hooks,
                   process_log, ctx, spawned, args, pc, pe, bt, rw, tr,
                   ck, post_hooked, lg, tty>>

\* Lines 508-527: the child process has ended; the worker writes the step
\* and the log.
WorkerFinish(p, outcome) ==
    /\ pool.fn = "_execute_step_bg"
    /\ p \in DOMAIN pool.state
    /\ pool.state[p] = "running"
    /\ LET step == plan.steps[p]
           status == StatusOfCaptured(outcome)
       IN  /\ plan' = SetStep(p, status,
                              ExitCodeOfCaptured(outcome, step.exit_code))
           /\ history_log' = Append(history_log,
                  LogEntry(step.command, status = "success"))
    /\ pool' = [pool EXCEPT !.state[p] = "done"]
    /\ UNCHANGED <<session_allowed, allowed_file, disabled_file, pre_hooks,
                   process_log, ctx, spawned, args, pc, pe, ep, bt, rw, tr,
                   ck, post_hooked, lg, tty>>

\* Lines 437-444: as_completed yields a finished future; a failed step is
\* added to failed_ids.
CollectFuture(p) ==
    /\ pc = "collect"
    /\ p \in DOMAIN pool.state
    /\ pool.state[p] = "done"
    /\ pool' = [pool EXCEPT !.state[p] = "collected"]
    /\ ep' = [ep EXCEPT !.failed_ids =
                 IF plan.steps[p].status = "failed"
                 THEN @ \cup {plan.steps[p].id} ELSE @]
    /\ UNCHANGED <<session_allowed, allowed_file, disabled_file, pre_hooks,
                   history_log, process_log, ctx, spawned, args, pc, pe, plan,
                   bt, rw, tr, ck, post_hooked, lg, tty>>

\* A variant of the end of the with block that does not wait for the futures.
PoolExitEarly ==
    /\ pc = "collect"
    /\ pool' = NoPool
    /\ ep' = [ep EXCEPT !.wi = ep.wi + 1]
    /\ pc' = "wave"
    /\ UNCHANGED <<session_allowed, allowed_file, disabled_file, pre_hooks,
                   history_log, process_log, ctx, spawned, args, pe, plan,
                   bt, rw, tr, ck, post_hooked, lg, tty>>

\* The with block ends when every future is done: _execute_wave_parallel
\* returns and execute_plan goes to the next wave.
PoolExit ==
    /\ pc = "collect"
    /\ \A p \in Positions(pool.order) : pool.state[p] = "collected"
    /\ pool' = NoPool
    /\ ep' = [ep EXCEPT !.wi = ep.wi + 1]
    /\ pc' = "wave"
    /\ UNCHANGED <<session_allowed, allowed_file, disabled_file, pre_hooks,
                   history_log, process_log, ctx, spawned, args, pe, plan, bt,
                   rw, tr, ck, post_hooked, lg, tty>>

(***************************************************************************)
(* orchestrator.py: the end of execute_plan                                *)
(***************************************************************************)

CountStatus(steps, status) ==
    Cardinality({p \in DOMAIN steps : steps[p].status = status})

\* A variant of the plan status in which one failed step fails the plan.
PlanStatusAnyFailed(steps) ==
    IF CountStatus(steps, "failed") = 0 /\ CountStatus(steps, "skipped") = 0
    THEN "completed"
    ELSE IF CountStatus(steps, "failed") > 0 THEN "failed"
    ELSE "partial"

\* Lines 375-385
PlanStatus(steps) ==
    IF CountStatus(steps, "failed") = 0 /\ CountStatus(steps, "skipped") = 0
    THEN "completed"
    ELSE IF CountStatus(steps, "success") = 0 THEN "failed"
    ELSE "partial"

\* Lines 372-401: the duration, the status, the process log.
ExecutePlanFinish ==
    /\ pc = "wave"
    /\ ep.wi > Len(ep.waves)
    /\ plan' = [plan EXCEPT !.total_duration_ms = Elapsed,
                            !.status = PlanStatus(plan.steps)]
    /\ process_log' = Append(process_log, plan')
    /\ pc' = "done"
    /\ UNCHANGED <<session_allowed, allowed_file, disabled_file, pre_hooks,
                   history_log, ctx, spawned, args, pe, ep, pool, bt, rw, tr,
                   ck, post_hooked, lg, tty>>

(***************************************************************************)
(* The plans execute_plan is given                                         *)
(***************************************************************************)

\* Bounds of the model: the steps of a plan, the dependencies of a step.
MaxSteps == 3
MaxDeps == 1

\* cli.py runs a plan only when it has more than one step.
MinSteps == 2

\* Commands of plan steps: one that passes the gate, one that is not trusted,
\* one with high and medium warnings, one with a critical warning.
PlanCommands == {CmdLs, CmdMkdir, CmdRmCache, CmdRmRoot}

\* The two of them that decide where a step of a wave runs: in the worker
\* pool, or on the calling thread.
WaveCommands == {CmdLs, CmdRmCache}

\* The ids a step of an n-step plan may name: the ids of the plan, and one
\* id no step has.
DepSets(n) == {d \in SUBSET (1..(n + 1)) : Cardinality(d) <= MaxDeps}

\* The plan of n steps with ids 1..n in order, given the command and the
\* dependencies of each.
PlanOf(n, cmds, deps) == [k \in 1..n |-> Step(k, cmds[k], deps[k])]

\* No step depends on another; and the plan generate_plan builds from plain
\* text (lines 177-182), each step depending on all the steps before it.
NoDeps(n) == [k \in 1..n |-> {}]
AllBefore(n) == [k \in 1..n |-> 1..(k - 1)]

\* The plans execute_plan is given: every dependency graph on few commands
\* (_parse_plan_json does not validate "needs", so the graph may be cyclic
\* or name an absent id), and every command on few dependency graphs.
InitPlan ==
    /\ session_allowed = {}
    /\ disabled_file = MissingFile
    /\ pre_hooks = <<>>
    /\ InitCommon
    /\ \E auto_yes \in BOOLEAN, dry_run \in BOOLEAN :
          args = [entry |-> "execute_plan", command |-> NoText,
                  commands |-> <<>>, auto_yes |-> auto_yes,
                  dry_run |-> dry_run, results |-> <<>>]
    /\ \E n \in MinSteps..MaxSteps :
          \/ /\ allowed_file = MissingFile
             /\ \E cmds \in [1..n -> WaveCommands],
                   deps \in [1..n -> DepSets(n)] :
                   plan = [NoPlan EXCEPT !.steps = PlanOf(n, cmds, deps)]
          \/ /\ allowed_file \in AllowedFiles
             /\ \E cmds \in [1..n -> PlanCommands],
                   deps \in {NoDeps(n), AllBefore(n)} :
                   plan = [NoPlan EXCEPT !.steps = PlanOf(n, cmds, deps)]

ExecutePlan ==
    \/ ExecutePlanDryRun
    \/ \E in \in Inputs : ExecutePlanAsk(in)
    \/ ExecutePlanConfirm
    \/ ExecutePlanAutoYes
    \/ WaveBegin
    \/ NeedsPromptNext
    \/ ExecStepStart
    \/ ExecStepPreviewed
    \/ \E outcome \in Outcomes : ExecStepRun(outcome)
    \/ SubmitStep
    \/ \E p \in 1..MaxSteps : WorkerStart(p)
    \/ \E p \in 1..MaxSteps, outcome \in Outcomes : WorkerFinish(p, outcome)
    \/ \E p \in 1..MaxSteps : CollectFuture(p)
    \/ PoolExit
    \/ ExecutePlanFinish

NextPlan == ExecutePlan \/ PreviewAndExecute

SpecPlan == InitPlan /\ [][NextPlan]_vars


(***************************************************************************)
(* executor.py: group_independent, preview_and_execute_batch,              *)
(* _run_parallel, _exec_single                                             *)
(***************************************************************************)

(***************************************************************************)
(* orchestrator.py: resolve_waves, pass by pass                            *)
(***************************************************************************)

\* Lines 259-264: the call; an empty list returns at once.
ResolveCall ==
    /\ pc = "start"
    /\ args.entry = "resolve_waves"
    /\ rw' = IF plan.steps = <<>>
             THEN [NoRW EXCEPT !.pc = "done"]
             ELSE [NoRW EXCEPT !.pc = "loop", !.n = Len(plan.steps) + 1,
                               !.remaining = [k \in DOMAIN plan.steps |-> k]]
    /\ pc' = "resolving"
    /\ UNCHANGED <<session_allowed, allowed_file, disabled_file, pre_hooks,
                   history_log, process_log, ctx, spawned, args, pe, plan, ep,
                   pool, bt, tr, ck, post_hooked, lg, tty>>

\* Lines 266-278: one pass of the for loop with steps remaining. With no
\* ready step the remaining steps become waves of their own and the loop is
\* left; otherwise the ready steps are a wave and their ids are completed.
ResolvePass ==
    /\ pc = "resolving"
    /\ rw.pc = "loop"
    /\ rw.n > 0
    /\ rw.remaining # <<>>
    /\ LET steps == plan.steps
           Ready(p) == \A d \in steps[p].depends_on : d \in rw.completed
           wave == Filter(rw.remaining, Ready)
           completed2 == rw.completed \cup {steps[p].id : p \in Positions(wave)}
           Left(p) == steps[p].id \notin completed2
       IN  rw' = IF wave = <<>>
                 THEN [rw EXCEPT !.waves = SingletonWaves(rw.waves, rw.remaining),
                                 !.pc = "done"]
                 ELSE [rw EXCEPT !.waves = Append(rw.waves, wave),
                                 !.completed = completed2,
                                 !.remaining = Filter(rw.remaining, Left),
                                 !.n = rw.n - 1]
    /\ UNCHANGED <<session_allowed, allowed_file, disabled_file, pre_hooks,
                   history_log, process_log, ctx, spawned, args, pc, pe, plan,
                   ep, pool, bt, tr, ck, post_hooked, lg, tty>>

\* Lines 267-268 and the end of range(len(steps) + 1): the loop is left.
ResolveLoopEnd ==
    /\ pc = "resolving"
    /\ rw.pc = "loop"
    /\ rw.n = 0 \/ rw.remaining = <<>>
    /\ rw' = [rw EXCEPT !.pc = "done"]
    /\ UNCHANGED <<session_allowed, allowed_file, disabled_file, pre_hooks,
                   history_log, process_log, ctx, spawned, args, pc, pe, plan,
                   ep, pool, bt, tr, ck, post_hooked, lg, tty>>

\* Line 280: return waves
ResolveReturn ==
    /\ pc = "resolving"
    /\ rw.pc = "done"
    /\ args' = [args EXCEPT !.results = rw.waves]
    /\ pc' = "done"
    /\ UNCHANGED <<session_allowed, allowed_file, disabled_file, pre_hooks,
                   history_log, process_log, ctx, spawned, pe, plan, ep, pool,
                   bt, rw, tr, ck, post_hooked, lg, tty>>

ResolveWaves == ResolveCall \/ ResolvePass \/ ResolveLoopEnd \/ ResolveReturn

\* The step lists resolve_waves is given: _parse_plan_json checks neither
\* the ids nor the dependencies, so two steps may carry one id, and a step
\* may depend on itself, on a later step or on an id no step has.
StepsOf(n, ids, deps) == [k \in 1..n |-> Step(ids[k], CmdLs, deps[k])]

(***************************************************************************)
(* orchestrator.py: one wave of independent steps, run to its end          *)
(***************************************************************************)

\* Commands of the steps of such a wave: one that runs in the pool, one with
\* a critical warning, and one with high and medium warnings that shlex
\* cannot split (its quote is never closed).
SiblingCommands == {CmdLs, CmdRmRoot, CmdRmQuote}

\* Plans whose steps depend on nothing, so that resolve_waves puts them all
\* in one wave and _execute_wave_parallel runs them.
InitSiblings ==
    /\ session_allowed = {}
    /\ allowed_file = MissingFile
    /\ disabled_file = MissingFile
    /\ pre_hooks = <<>>
    /\ InitCommon
    /\ \E auto_yes \in BOOLEAN, dry_run \in BOOLEAN :
          args = [entry |-> "execute_plan", command |-> NoText,
                  commands |-> <<>>, auto_yes |-> auto_yes,
                  dry_run |-> dry_run, results |-> <<>>]
    /\ \E n \in MinSteps..MaxSteps :
          \E cmds \in [1..n -> SiblingCommands] :
             plan = [NoPlan EXCEPT !.steps = PlanOf(n, cmds, NoDeps(n))]

\* execute_plan is one sequential call: while a statement of it can run it
\* does run, the user answers every prompt that is shown (or ends the
\* input, which input() reports as EOFError), every child process ends
\* (subprocess.run is called without timeout and returns when it does), and
\* the pool runs every future submitted to it.
SpecSiblings == InitSiblings /\ [][NextPlan]_vars /\ WF_vars(NextPlan)

(***************************************************************************)
(* orchestrator.py: execute_plan on plans whose ids repeat                 *)
(***************************************************************************)

\* The plan of n steps with the given ids, commands and dependencies.
PlanWithIds(n, ids, cmds, deps) ==
    [k \in 1..n |-> Step(ids[k], cmds[k], deps[k])]

\* The commands of such a plan: all steps run ls, or the first one is a
\* command with a high or with a critical warning.
FirstThenLs(n, first) == [k \in 1..n |-> IF k = 1 THEN first ELSE CmdLs]

\* Plans as _parse_plan_json builds them from the model's answer (lines
\* 192-225): "id" and "needs" are taken as they come, so two steps may
\* carry one id, and a step may need itself, a later step or an id no step
\* has.
InitIds ==
    /\ session_allowed = {}
    /\ allowed_file = MissingFile
    /\ disabled_file = MissingFile
    /\ pre_hooks = <<>>
    /\ InitCommon
    /\ \E auto_yes \in BOOLEAN, dry_run \in BOOLEAN :
          args = [entry |-> "execute_plan", command |-> NoText,
                  commands |-> <<>>, auto_yes |-> auto_yes,
                  dry_run |-> dry_run, results |-> <<>>]
    /\ \E n \in MinSteps..MaxSteps :
          \E ids \in [1..n -> 1..n],
             deps \in [1..n -> {{}, {1}, {n + 1}}],
             first \in {CmdLs, CmdRmCache, CmdRmRoot} :
             plan = [NoPlan EXCEPT
                        !.steps = PlanWithIds(n, ids, FirstThenLs(n, first),
                                              deps)]

SpecIds == InitIds /\ [][NextPlan]_vars

InitWaves ==
    /\ session_allowed = {}
    /\ allowed_file = MissingFile
    /\ disabled_file = MissingFile
    /\ pre_hooks = <<>>
    /\ InitCommon
    /\ args = [entry |-> "resolve_waves", command |-> NoText,
               commands |-> <<>>, auto_yes |-> FALSE, dry_run |-> FALSE,
               results |-> <<>>]
    /\ \E n \in 0..MaxSteps :
          \E ids \in [1..n -> 1..n], deps \in [1..n -> DepSets(n)] :
             plan = [NoPlan EXCEPT !.steps = StepsOf(n, ids, deps)]

\* The loop is a for loop over a finite range: each pass is taken.
SpecWaves == InitWaves /\ [][ResolveWaves]_vars /\ WF_vars(ResolveWaves)

\* The grave accent, which a TLA+ string cannot hold, as a character.
GraveAccent == "grave"

_DEPENDENCY_MARKERS ==
    Alt(<<Str(<<"$","(">>),
          Cat(<<Lit(GraveAccent), Star(Dot), Lit(GraveAccent)>>),
          Cat(<<Lit("|"), Star(ReS), ReW>>),
          Str(<<"&","&">>),
          Cat(<<Lit(";"), Star(ReS), ReW>>),
          Cat(<<Lit(">"), ReS>>),
          Str(<<">",">">>),
          Cat(<<Lit("$"), ReW>>)>>)

\* str.split(): the runs of characters that are not whitespace.
RECURSIVE SplitLoop(_, _, _)
SplitLoop(s, word, words) ==
    IF s = <<>> THEN (IF word = <<>> THEN words ELSE Append(words, word))
    ELSE IF Head(s) \in SpaceChars
    THEN SplitLoop(Tail(s), <<>>,
                   IF word = <<>> THEN words ELSE Append(words, word))
    ELSE SplitLoop(Tail(s), Append(word, Head(s)), words)

Split(s) == SplitLoop(s, <<>>, <<>>)

WriteWords == { <<"m","v">>, <<"c","p">>, <<"r","m">>,
                <<"t","o","u","c","h">>, <<"m","k","d","i","r">>,
                <<"r","m","d","i","r">>, <<">">>, <<">",">">>,
                <<"t","e","e">> }

\* A variant of the test that looks for a file-writing verb in every word
\* of the command.
HasDepsOrWritesAnyWord(cmd) ==
    LET has_deps == Search(_DEPENDENCY_MARKERS, cmd, FALSE)
        words == Split(cmd)
        writes_file == \E k \in 1..Len(words) : words[k] \in WriteWords
    IN  has_deps \/ writes_file

\* Lines 210-219: the command goes to a batch of its own.
HasDepsOrWrites(cmd) ==
    LET has_deps == Search(_DEPENDENCY_MARKERS, cmd, FALSE)
        words == Split(cmd)
        writes_file == \E k \in 1..Min(3, Len(words)) : words[k] \in WriteWords
    IN  has_deps \/ writes_file

Independent(cmd) == ~HasDepsOrWrites(cmd)

group_independent(commands) ==
    IF Len(commands) <= 1
    THEN (IF commands = <<>> THEN <<>> ELSE <<commands>>)
    ELSE LET independent == SelectSeq(commands, Independent)
             sequential == SelectSeq(commands, HasDepsOrWrites)
         IN  (IF independent # <<>> THEN <<independent>> ELSE <<>>)
             \o [k \in DOMAIN sequential |-> <<sequential[k]>>]

\* Lines 246-253: the batches; a list of one command is one batch of one.
BatchCall ==
    /\ pc = "start"
    /\ args.entry = "preview_and_execute_batch"
    /\ bt' = [NoBT EXCEPT !.batches = group_independent(args.commands),
                          !.bi = 1]
    /\ pc' = "batch"
    /\ UNCHANGED <<session_allowed, allowed_file, disabled_file, pre_hooks,
                   history_log, process_log, ctx, spawned, args, pe, plan,
                   ep, pool, rw, tr, ck, post_hooked, lg, tty>>

\* Lines 256-266: the next batch; a batch of one goes to
\* preview_and_execute, a larger one to _run_parallel (lines 280-281).
BatchNext ==
    /\ pc = "batch"
    /\ bt.bi <= Len(bt.batches)
    /\ LET batch == bt.batches[bt.bi]
       IN  IF Len(batch) = 1
           THEN /\ pe' = CallPE(batch[1], args.auto_yes, args.dry_run)
                /\ pc' = "batch_wait"
                /\ bt' = bt
           ELSE /\ bt' = [bt EXCEPT !.i = 1, !.approved = <<>>,
                                    !.results = [k \in DOMAIN batch |-> None]]
                /\ pc' = "par_loop"
                /\ pe' = pe
    /\ UNCHANGED <<session_allowed, allowed_file, disabled_file, pre_hooks,
                   history_log, process_log, ctx, spawned, args, plan, ep,
                   pool, rw, tr, ck, post_hooked, lg, tty>>

\* Line 262: results.append(r)
BatchPreviewed ==
    /\ pc = "batch_wait"
    /\ pe.pc = "return"
    /\ args' = [args EXCEPT !.results = Append(@, pe.result)]
    /\ bt' = [bt EXCEPT !.bi = @ + 1]
    /\ pe' = IdlePE
    /\ pc' = "batch"
    /\ UNCHANGED <<session_allowed, allowed_file, disabled_file, pre_hooks,
                   history_log, process_log, ctx, spawned, plan, ep, pool, rw,
                   tr, ck, post_hooked, lg, tty>>

\* Line 268: return results
BatchReturn ==
    /\ pc = "batch"
    /\ bt.bi > Len(bt.batches)
    /\ pc' = "done"
    /\ UNCHANGED <<session_allowed, allowed_file, disabled_file, pre_hooks,
                   history_log, process_log, ctx, spawned, args, pe, plan,
                   ep, pool, bt, rw, tr, ck, post_hooked, lg, tty>>

\* Lines 283-294: one command of the batch. A command with warnings, and one
\* that neither auto_yes nor the trust stores let through, goes to
\* preview_and_execute; in a dry run the result of the call is dropped.
RunParallelLoop ==
    /\ pc = "par_loop"
    /\ bt.i <= Len(bt.batches[bt.bi])
    /\ LET cmd == bt.batches[bt.bi][bt.i]
           warnings == CheckCommand(cmd)
       IN  IF warnings # <<>>
           THEN /\ pe' = CallPE(cmd, args.auto_yes, args.dry_run)
                /\ bt' = [bt EXCEPT !.keep = TRUE]
                /\ pc' = "par_wait"
           ELSE IF args.dry_run
           THEN /\ pe' = CallPE(cmd, FALSE, TRUE)
                /\ bt' = [bt EXCEPT !.keep = FALSE]
                /\ pc' = "par_wait"
           ELSE IF args.auto_yes \/ should_auto_execute(cmd)
           THEN /\ bt' = [bt EXCEPT !.approved = Append(@, bt.i),
                                    !.i = @ + 1]
                /\ pe' = pe
                /\ pc' = "par_loop"
           ELSE /\ pe' = CallPE(cmd, args.auto_yes, FALSE)
                /\ bt' = [bt EXCEPT !.keep = TRUE]
                /\ pc' = "par_wait"
    /\ UNCHANGED <<session_allowed, allowed_file, disabled_file, pre_hooks,
                   history_log, process_log, ctx, spawned, args, plan, ep,
                   pool, rw, tr, ck, post_hooked, lg, tty>>

RunParallelPreviewed ==
    /\ pc = "par_wait"
    /\ pe.pc = "return"
    /\ bt' = [bt EXCEPT !.results[bt.i] = IF bt.keep THEN pe.result ELSE @,
                        !.i = @ + 1]
    /\ pe' = IdlePE
    /\ pc' = "par_loop"
    /\ UNCHANGED <<session_allowed, allowed_file, disabled_file, pre_hooks,
                   history_log, process_log, ctx, spawned, args, plan, ep,
                   pool, rw, tr, ck, post_hooked, lg, tty>>

\* Lines 296-299: after the loop, return when nothing was approved, else
\* create the pool.  Line 266: results.extend(batch_results)
RunParallelLoopEnd ==
    /\ pc = "par_loop"
    /\ bt.i > Len(bt.batches[bt.bi])
    /\ IF bt.approved = <<>>
       THEN /\ args' = [args EXCEPT !.results = @ \o bt.results]
            /\ bt' = [bt EXCEPT !.bi = @ + 1]
            /\ pc' = "batch"
            /\ pool' = pool
       ELSE /\ pool' = NewPool(Len(bt.batches[bt.bi]), Len(bt.approved),
                               "_exec_single")
            /\ pc' = "par_submit"
            /\ UNCHANGED <<args, bt, rw, tr, ck, post_hooked, lg, tty>>
    /\ UNCHANGED <<session_allowed, allowed_file, disabled_file, pre_hooks,
                   history_log, process_log, ctx, spawned, pe, plan, ep, rw,
                   tr, ck, post_hooked, lg, tty>>

\* Lines 301-304: pool.submit(_exec_single, cmd, ...)
RunParallelSubmit ==
    /\ pc = "par_submit"
    /\ LET k == Len(pool.order) + 1
           idx == bt.approved[k]
       IN  /\ pool' = [pool EXCEPT !.state[idx] = "queued",
                                   !.order = Append(@, idx)]
           /\ pc' = IF k = Len(bt.approved) THEN "par_collect"
                    ELSE "par_submit"
    /\ UNCHANGED <<session_allowed, allowed_file, disabled_file, pre_hooks,
                   history_log, process_log, ctx, spawned, args, pe, plan,
                   ep, bt, rw, tr, ck, post_hooked, lg, tty>>

\* A worker thread takes the future and _exec_single starts the child
\* process (lines 315-319).
ExecSingleStart(idx) ==
    /\ pool.fn = "_exec_single"
    /\ idx \in DOMAIN pool.state
    /\ pool.state[idx] = "queued"
    /\ Cardinality(EarlierUnfinished(idx)) < pool.max_workers
    /\ pool' = [pool EXCEPT !.state[idx] = "running"]
    /\ LET command == bt.batches[bt.bi][idx]
       IN  spawned' = Append(spawned,
               Spawn(command, command, "_exec_single", 0, NoText))
    /\ UNCHANGED <<session_allowed, allowed_file, disabled_file, pre_hooks,
                   history_log, process_log, ctx, args, pc, pe, plan, ep, bt,
                   rw, tr, ck, post_hooked, lg, tty>>

\* Lines 320-334: the child process has ended, or subprocess.run raised
\* (the launch failed, or the captured output was not UTF-8).
ExecSingleFinish(idx, outcome) ==
    /\ pool.fn = "_exec_single"
    /\ idx \in DOMAIN pool.state
    /\ pool.state[idx] = "running"
    /\ LET command == bt.batches[bt.bi][idx]
           success == StatusOfCaptured(outcome) = "success"
       IN  /\ history_log' = Append(history_log, LogEntry(command, success))
           /\ pool' = [pool EXCEPT !.state[idx] = "done",
                                   !.result[idx] = PyBool(success)]
    /\ UNCHANGED <<session_allowed, allowed_file, disabled_file, pre_hooks,
                   process_log, ctx, spawned, args, pc, pe, plan, ep, bt, rw,
                   tr, ck, post_hooked, lg, tty>>

\* Lines 306-308: results[idx] = future.result()
RunParallelCollect(idx) ==
    /\ pc = "par_collect"
    /\ idx \in DOMAIN pool.state
    /\ pool.state[idx] = "done"
    /\ pool' = [pool EXCEPT !.state[idx] = "collected"]
    /\ bt' = [bt EXCEPT !.results[idx] = pool.result[idx]]
    /\ UNCHANGED <<session_allowed, allowed_file, disabled_file, pre_hooks,
                   history_log, process_log, ctx, spawned, args, pc, pe,
                   plan, ep, rw, tr, ck, post_hooked, lg, tty>>

\* Line 310 and line 266: the pool is left, the results of the batch are
\* added to the results of the call.
RunParallelReturn ==
    /\ pc = "par_collect"
    /\ \A idx \in Positions(pool.order) : pool.state[idx] = "collected"
    /\ pool' = NoPool
    /\ args' = [args EXCEPT !.results = @ \o bt.results]
    /\ bt' = [bt EXCEPT !.bi = @ + 1]
    /\ pc' = "batch"
    /\ UNCHANGED <<session_allowed, allowed_file, disabled_file, pre_hooks,
                   history_log, process_log, ctx, spawned, pe, plan, ep, rw,
                   tr, ck, post_hooked, lg, tty>>

\* Bound of the model: the commands of a list.
MaxCommands == 3

\* Commands of a list: two that go to the parallel batch without warning
\* (one trusted, one not), one that goes there with a warning, one that
\* writes (with a critical warning) and one that pipes.
BatchCommands == {CmdLs, CmdMake, CmdFind, CmdRmRoot, CmdPipe}

CommandLists == UNION {[1..n -> BatchCommands] : n \in 0..MaxCommands}

InitBatch ==
    /\ session_allowed = {}
    /\ allowed_file \in AllowedFiles
    /\ disabled_file = MissingFile
    /\ pre_hooks \in HookLists
    /\ InitCommon
    /\ \E commands \in CommandLists, auto_yes \in BOOLEAN, dry_run \in BOOLEAN :
          args = [entry |-> "preview_and_execute_batch", command |-> NoText,
                  commands |-> commands, auto_yes |-> auto_yes,
                  dry_run |-> dry_run, results |-> <<>>]
    /\ plan = NoPlan

PreviewAndExecuteBatch ==
    \/ BatchCall
    \/ BatchNext
    \/ BatchPreviewed
    \/ BatchReturn
    \/ RunParallelLoop
    \/ RunParallelPreviewed
    \/ RunParallelLoopEnd
    \/ RunParallelSubmit
    \/ \E idx \in 1..MaxCommands : ExecSingleStart(idx)
    \/ \E idx \in 1..MaxCommands, outcome \in Outcomes :
          ExecSingleFinish(idx, outcome)
    \/ \E idx \in 1..MaxCommands : RunParallelCollect(idx)
    \/ RunParallelReturn

NextBatch == PreviewAndExecuteBatch \/ PreviewAndExecute

SpecBatch == InitBatch /\ [][NextBatch]_vars

(***************************************************************************)
(* allowlist.py: the calls that change the trust stores                    *)
(***************************************************************************)

\* write_text in _save_user_allowed and _save_disabled_builtins: the file
\* after it. An OSError is swallowed (lines 188-192, 206-210) and the file
\* stays as it was.
WriteOutcomes == {"ok", "OSError"}
WriteText(old, new, write) == IF write = "ok" THEN new ELSE old

\* A variant of remove_from_permanent that discards the command as typed
\* instead of its key.
RemoveTypedCommand(command) ==
    LET key == _normalize(command)
        allowed == LoadSet(allowed_file)
    IN  IF key \in allowed THEN SaveSet(allowed \ {command}) ELSE allowed_file

\* remove_from_permanent: the file it writes, and what it returns.
remove_from_permanent(command) ==
    LET key == _normalize(command)
        allowed == LoadSet(allowed_file)
    IN  IF key \in allowed THEN SaveSet(allowed \ {key}) ELSE allowed_file

RemoveResult(command) ==
    PyBool(_normalize(command) \in LoadSet(allowed_file))

\* disable_safe_command and enable_safe_command: the file they write.
disable_safe_command(command) ==
    SaveSet(LoadSet(disabled_file) \cup {command})

enable_safe_command(command) ==
    SaveSet(LoadSet(disabled_file) \ {command})

\* The record of a call made now.
Call(op, arg, write, result) ==
    [op |-> op, arg |-> arg, write |-> write, result |-> result,
     allowed |-> allowed_file, disabled |-> disabled_file,
     session |-> session_allowed]

Called(call) == [count |-> tr.count + 1, last |-> call, prev |-> tr.last]

\* Bound of the model: the settings calls of one process.
MaxCalls == 2

CanCall ==
    /\ args.entry = "settings"
    /\ tr.count < MaxCalls

\* add_to_permanent(command); _normalize may raise ValueError (line 98).
AddToPermanent(command, write) ==
    /\ CanCall
    /\ LET raises == _normalize(command) = ValueError
       IN  /\ allowed_file' = IF raises THEN allowed_file
                              ELSE WriteText(allowed_file,
                                             add_to_permanent(command), write)
           /\ tr' = Called(Call("add_to_permanent", command,
                                IF raises THEN "None" ELSE write,
                                IF raises THEN "ValueError" ELSE "None"))
    /\ UNCHANGED <<session_allowed, disabled_file, pre_hooks, history_log,
                   process_log, ctx, spawned, args, pc, pe, plan, ep, pool, bt,
                   rw, ck, post_hooked, lg, tty>>

\* remove_from_permanent(command): the file is written only when the key
\* is in it.
RemoveFromPermanent(command, write) ==
    /\ CanCall
    /\ LET raises == _normalize(command) = ValueError
           found == ~raises /\ RemoveResult(command) = "True"
       IN  /\ allowed_file' = IF found
                              THEN WriteText(allowed_file,
                                             remove_from_permanent(command),
                                             write)
                              ELSE allowed_file
           /\ tr' = Called(Call("remove_from_permanent", command,
                                IF found THEN write ELSE "None",
                                IF raises THEN "ValueError"
                                ELSE RemoveResult(command)))
    /\ UNCHANGED <<session_allowed, disabled_file, pre_hooks, history_log,
                   process_log, ctx, spawned, args, pc, pe, plan, ep, pool, bt,
                   rw, ck, post_hooked, lg, tty>>

\* add_to_session(command)
AddToSession(command) ==
    /\ CanCall
    /\ LET raises == _normalize(command) = ValueError
       IN  /\ session_allowed' = IF raises THEN session_allowed
                                 ELSE add_to_session(command)
           /\ tr' = Called(Call("add_to_session", command, "None",
                                IF raises THEN "ValueError" ELSE "None"))
    /\ UNCHANGED <<allowed_file, disabled_file, pre_hooks, history_log,
                   process_log, ctx, spawned, args, pc, pe, plan, ep, pool, bt,
                   rw, ck, post_hooked, lg, tty>>

\* disable_safe_command(command)
DisableSafeCommand(command, write) ==
    /\ CanCall
    /\ disabled_file' = WriteText(disabled_file,
                                  disable_safe_command(command), write)
    /\ tr' = Called(Call("disable_safe_command", command, write, "None"))
    /\ UNCHANGED <<session_allowed, allowed_file, pre_hooks, history_log,
                   process_log, ctx, spawned, args, pc, pe, plan, ep, pool, bt,
                   rw, ck, post_hooked, lg, tty>>

\* enable_safe_command(command)
EnableSafeCommand(command, write) ==
    /\ CanCall
    /\ disabled_file' = WriteText(disabled_file,
                                  enable_safe_command(command), write)
    /\ tr' = Called(Call("enable_safe_command", command, write, "None"))
    /\ UNCHANGED <<session_allowed, allowed_file, pre_hooks, history_log,
                   process_log, ctx, spawned, args, pc, pe, plan, ep, pool, bt,
                   rw, ck, post_hooked, lg, tty>>

\* The commands the calls are given: a command that is its own key, one
\* whose key is shorter than it and is a builtin prefix, one whose key the
\* permanent list may already hold, one that shlex cannot split, and a
\* command of two tokens written with one blank, with two blanks and with
\* quotes around the second token.
TrustCommands == {CmdLs, CmdGitStatus, CmdMkdirBare, CmdQuote, CmdMake,
                  CmdMakeSpaced, CmdMakeQuoted}

\* The builtin prefixes that are disabled and enabled.
SafePrefixes == {KeyLs, KeyGitStatus}

Settings ==
    \/ \E command \in TrustCommands, write \in WriteOutcomes :
          AddToPermanent(command, write)
    \/ \E command \in TrustCommands, write \in WriteOutcomes :
          RemoveFromPermanent(command, write)
    \/ \E command \in TrustCommands : AddToSession(command)
    \/ \E command \in SafePrefixes, write \in WriteOutcomes :
          DisableSafeCommand(command, write)
    \/ \E command \in SafePrefixes, write \in WriteOutcomes :
          EnableSafeCommand(command, write)

\* A file that exists and does not hold a JSON array: the loaders read it
\* as the empty set.
NotListFile == [kind |-> "notlist", items |-> {}]

\* A process that starts with an empty session set and the files a former
\* process left.
InitTrust ==
    /\ session_allowed = {}
    /\ allowed_file \in AllowedFiles \cup {NotListFile}
    /\ disabled_file \in DisabledFiles \cup {NotListFile}
    /\ pre_hooks = <<>>
    /\ InitCommon
    /\ args = [entry |-> "settings", command |-> NoText, commands |-> <<>>,
               auto_yes |-> FALSE, dry_run |-> FALSE, results |-> <<>>]
    /\ plan = NoPlan

SpecTrust == InitTrust /\ [][Settings]_vars

(***************************************************************************)
(* The program: one call of an entry point, or the calls of the settings   *)
(***************************************************************************)

(***************************************************************************)
(* allowlist.py: the trust check on stores of any content                  *)
(***************************************************************************)

\* Store files beside the missing file, the array of strings and the JSON
\* value that is not an array: a file that cannot be read (OSError) or is
\* not JSON (JSONDecodeError), both caught at lines 183 and 201; a file
\* whose bytes are not UTF-8, for which read_text raises
\* UnicodeDecodeError; an array that holds strings and a number or null;
\* an array that holds strings and a nested array or object, for which
\* set(data) raises TypeError (unhashable).
InvalidFile == [kind |-> "invalid", items |-> {}]
NotUtf8File == [kind |-> "notutf8", items |-> {}]
MixedFile(items) == [kind |-> "mixed", items |-> items]
NestedFile(items) == [kind |-> "nested", items |-> items]

\* What _load_user_allowed and _load_disabled_builtins raise on a file:
\* the except clauses name json.JSONDecodeError and OSError only.
LoadRaises(file) ==
    IF file.kind = "notutf8" THEN "UnicodeDecodeError"
    ELSE IF file.kind = "nested" THEN "TypeError"
    ELSE "None"

\* A variant of the loaders that catches every exception of the read.
LoadRaisesNothing(file) == "None"

\* The outcomes of should_auto_execute(command) on the stores as they are:
\* "True", "False" or the exception that leaves the call. The disabled
\* file is loaded first (line 78, through _get_active_safe_prefixes); the
\* permanent file only when neither the builtin tier nor the session tier
\* matched (line 84). A number in the disabled set is subtracted like any
\* element. A number in the permanent set ends the loop of
\* _matches_allow_list with AttributeError at entry.lower() (line 171)
\* unless a matching string was met before it, and the order in which a
\* set is iterated is not fixed (string hashes differ from run to run).
TrustCheckOutcomes(command) ==
    LET cmd_stripped == Strip(command)
    IN  IF LoadRaises(disabled_file) # "None"
        THEN {LoadRaises(disabled_file)}
        ELSE IF _is_builtin_safe(cmd_stripped, disabled_file) THEN {"True"}
        ELSE IF _matches_allow_list(cmd_stripped, session_allowed)
        THEN {"True"}
        ELSE IF LoadRaises(allowed_file) # "None"
        THEN {LoadRaises(allowed_file)}
        ELSE IF allowed_file.kind = "mixed"
        THEN {"AttributeError"} \cup
             (IF _matches_allow_list(cmd_stripped, LoadSet(allowed_file))
              THEN {"True"} ELSE {})
        ELSE {PyBool(_matches_allow_list(cmd_stripped,
                                         LoadSet(allowed_file)))}

\* One call of should_auto_execute(command), as the executor and the
\* orchestrator make it before they show a prompt.
ShouldAutoExecute(command, result) ==
    /\ args.entry = "should_auto_execute"
    /\ tr.count < MaxCalls
    /\ result \in TrustCheckOutcomes(command)
    /\ tr' = Called(Call("should_auto_execute", command, "None", result))
    /\ UNCHANGED <<session_allowed, allowed_file, disabled_file, pre_hooks,
                   history_log, process_log, ctx, spawned, args, pc, pe, plan,
                   ep, pool, bt, rw, ck, post_hooked, lg, tty>>

\* The commands that are checked: under a builtin prefix (as typed, and in
\* capitals between blanks), under keys the stores may hold, equal to a
\* key, starting with a key and no space, and under no entry.
CmdLsPadded == <<" ","L","S"," ","-","l","a"," ">>
CmdMkdirs   == <<"m","k","d","i","r","s">>
CheckedCommands == {CmdLs, CmdLsPadded, CmdMkdir, CmdMkdirBare, CmdMkdirs,
                    CmdRmCache, CmdMake}

CheckResults == {"True", "False", "TypeError", "AttributeError",
                 "UnicodeDecodeError"}

TrustCheck ==
    \E command \in CheckedCommands, result \in CheckResults :
        ShouldAutoExecute(command, result)

\* The files a process may find in ~/.termai, whoever wrote them.
KeyMkdirUpper == <<"M","K","D","I","R">>
AnyAllowedFiles ==
    AllowedFiles \cup {ListFile({KeyMkdirUpper}),
                       NotListFile, InvalidFile, NotUtf8File,
                       MixedFile({KeyMkdir}), NestedFile({KeyMkdir})}
AnyDisabledFiles ==
    DisabledFiles \cup {NotListFile, InvalidFile, NotUtf8File,
                        MixedFile({KeyLs}), NestedFile({KeyLs})}

InitStore ==
    /\ session_allowed \in {{}, {KeyRm}}
    /\ allowed_file \in AnyAllowedFiles
    /\ disabled_file \in AnyDisabledFiles
    /\ pre_hooks = <<>>
    /\ InitCommon
    /\ args = [entry |-> "should_auto_execute", command |-> NoText,
               commands |-> <<>>, auto_yes |-> FALSE, dry_run |-> FALSE,
               results |-> <<>>]
    /\ plan = NoPlan

SpecStore == InitStore /\ [][TrustCheck]_vars

(***************************************************************************)
(* safety.py: check_command rule by rule                                   *)
(***************************************************************************)

\* A variant of the test of line 181 that lets a rule fire only while no
\* warning has been given.
RuleFiresOnce(rule, cmd, warnings) ==
    /\ Search(rule.re, cmd, rule.ic)
    /\ warnings = <<>>

\* A variant of the test of line 181 that does not look at seen_reasons.
RuleFiresUnseen(rule, cmd, warnings) ==
    Search(rule.re, cmd, rule.ic)

\* The test of line 181: the pattern is found in the command and no
\* warning carries the rule's reason yet (seen_reasons holds the reasons
\* of the warnings given so far).
RuleFires(rule, cmd, warnings) ==
    /\ Search(rule.re, cmd, rule.ic)
    /\ rule.reason \notin {warnings[j].reason : j \in DOMAIN warnings}

\* check_command(command): lines 176-178
CheckCall ==
    /\ args.entry = "check_command"
    /\ ck.pc = "idle"
    /\ ck' = [pc |-> "rules", cmd |-> Strip(args.command), k |-> 1,
              warnings |-> <<>>]
    /\ UNCHANGED <<session_allowed, allowed_file, disabled_file, pre_hooks,
                   history_log, process_log, ctx, spawned, args, pc, pe, plan,
                   ep, pool, bt, rw, tr, post_hooked, lg, tty>>

\* One turn of the loop over _RULES: lines 180-183
CheckRule ==
    /\ ck.pc = "rules"
    /\ ck.k <= Len(_RULES)
    /\ LET rule == _RULES[ck.k]
       IN  ck' = [ck EXCEPT
                    !.k = ck.k + 1,
                    !.warnings =
                        IF RuleFires(rule, ck.cmd, ck.warnings)
                        THEN Append(ck.warnings,
                                    SafetyWarning(rule.severity, rule.reason))
                        ELSE ck.warnings]
    /\ UNCHANGED <<session_allowed, allowed_file, disabled_file, pre_hooks,
                   history_log, process_log, ctx, spawned, args, pc, pe, plan,
                   ep, pool, bt, rw, tr, post_hooked, lg, tty>>

\* return warnings: line 185
CheckReturn ==
    /\ ck.pc = "rules"
    /\ ck.k > Len(_RULES)
    /\ ck' = [ck EXCEPT !.pc = "returned"]
    /\ UNCHANGED <<session_allowed, allowed_file, disabled_file, pre_hooks,
                   history_log, process_log, ctx, spawned, args, pc, pe, plan,
                   ep, pool, bt, rw, tr, post_hooked, lg, tty>>

SafetyCheck == CheckCall \/ CheckRule \/ CheckReturn

\* Bound of the model: the words of a checked command.
MaxWords == 3

\* The words the checked commands are made of: they give commands no rule
\* matches, commands several rules match, and commands matched by two
\* rules that share a reason (fdisk, parted).
Vocabulary == {
    <<"r","m">>, <<"-","r","f">>, <<"/">>,
    <<"/","t","m","p","/","c","a","c","h","e">>,
    <<"f","d","i","s","k">>, <<"p","a","r","t","e","d">>
}

InitCheck ==
    /\ pre_hooks = <<>>
    /\ session_allowed = {}
    /\ allowed_file = MissingFile
    /\ disabled_file = MissingFile
    /\ InitCommon
    /\ \E n \in 1..MaxWords : \E words \in [1..n -> Vocabulary] :
          args = [entry |-> "check_command", command |-> JoinSpace(words),
                  commands |-> <<>>, auto_yes |-> FALSE, dry_run |-> FALSE,
                  results |-> <<>>]
    /\ plan = NoPlan

SpecCheck == InitCheck /\ [][SafetyCheck]_vars

(***************************************************************************)
(* The worker pools on wide waves and batches                              *)
(***************************************************************************)

\* Bound of the model: the steps of a wave and the commands of a batch
\* that go to a pool, one more than the cap of the pools.
MaxWidth == 5

\* Plans of one wave and batches of one group, every command approved
\* without a prompt (auto_yes, no warning), so that all of them reach the
\* pool.
InitPool ==
    /\ session_allowed = {}
    /\ allowed_file = MissingFile
    /\ disabled_file = MissingFile
    /\ pre_hooks = <<>>
    /\ InitCommon
    /\ \E n \in 2..MaxWidth :
          LET commands == [k \in 1..n |-> CmdLs]
          IN  \/ /\ args = [entry |-> "execute_plan", command |-> NoText,
                            commands |-> <<>>, auto_yes |-> TRUE,
                            dry_run |-> FALSE, results |-> <<>>]
                 /\ plan = [NoPlan EXCEPT
                               !.steps = PlanOf(n, commands, NoDeps(n))]
              \/ /\ args = [entry |-> "preview_and_execute_batch",
                            command |-> NoText, commands |-> commands,
                            auto_yes |-> TRUE, dry_run |-> FALSE,
                            results |-> <<>>]
                 /\ plan = NoPlan

\* How the child processes of these calls end. The pool takes the next
\* future when a worker is free, however the last child ended (the
\* workers catch every exception of subprocess.run).
PoolOutcomes == {"exit0"}

\* The steps of execute_plan and preview_and_execute_batch that such calls
\* take.
NextPool ==
    \/ ExecutePlanAutoYes
    \/ WaveBegin
    \/ NeedsPromptNext
    \/ SubmitStep
    \/ \E p \in 1..MaxWidth : WorkerStart(p)
    \/ \E p \in 1..MaxWidth, outcome \in PoolOutcomes :
          WorkerFinish(p, outcome)
    \/ \E p \in 1..MaxWidth : CollectFuture(p)
    \/ PoolExit
    \/ ExecutePlanFinish
    \/ BatchCall
    \/ BatchNext
    \/ BatchReturn
    \/ RunParallelLoop
    \/ RunParallelLoopEnd
    \/ RunParallelSubmit
    \/ \E idx \in 1..MaxWidth : ExecSingleStart(idx)
    \/ \E idx \in 1..MaxWidth, outcome \in PoolOutcomes :
          ExecSingleFinish(idx, outcome)
    \/ \E idx \in 1..MaxWidth : RunParallelCollect(idx)
    \/ RunParallelReturn

SpecPool == InitPool /\ [][NextPool]_vars

(***************************************************************************)
(* logger.py: log_command called from several threads                      *)
(***************************************************************************)

\* What f.write(json.dumps(entry) + "\n") hands to the file when the with
\* block closes it: the text of the record and its newline, in one buffer.
LogLine(t, command, success) ==
    << [call |-> t, part |-> "json", command |-> command, success |-> success],
       [call |-> t, part |-> "newline", command |-> command,
        success |-> success] >>

\* A variant of write(2) for a file opened without O_APPEND: the data goes
\* to the offset the descriptor had when it was opened.
WriteAtOffset(file, offset, data) ==
    SubSeq(file, 1, offset) \o data
       \o SubSeq(file, offset + Len(data) + 1, Len(file))

\* write(2) on a descriptor opened with O_APPEND (mode "a", line 45):
\* the offset is set to the end of the file and the data written, with no
\* other modification of the file in between.
AppendWrite(file, offset, data) == file \o data

\* What the calls that can raise OSError do: _ensure_log_dir and os.getcwd
\* (lines 37-43), open (line 45), the write at the close of the with block.
LogOutcomes == {"ok", "OSError"}

\* Line 30: a worker thread whose command has ended calls log_command.
LogCall(t, success) ==
    /\ args.entry = "log_command"
    /\ t \in DOMAIN args.commands
    /\ lg.th[t].pc = "idle"
    /\ lg' = [lg EXCEPT !.th[t] = [pc |-> "entry", success |-> success,
                                   offset |-> 0]]
    /\ UNCHANGED <<session_allowed, allowed_file, disabled_file, pre_hooks,
                   history_log, process_log, ctx, spawned, args, pc, pe, plan,
                   ep, pool, bt, rw, tr, ck, post_hooked, tty>>

\* Lines 36-44: the directory is made and the entry built; an OSError
\* (os.getcwd in a directory that was removed) ends the call (lines 47-48).
LogBuild(t, outcome) ==
    /\ lg.th[t].pc = "entry"
    /\ lg' = [lg EXCEPT !.th[t].pc = IF outcome = "ok" THEN "open" ELSE "lost"]
    /\ UNCHANGED <<session_allowed, allowed_file, disabled_file, pre_hooks,
                   history_log, process_log, ctx, spawned, args, pc, pe, plan,
                   ep, pool, bt, rw, tr, ck, post_hooked, tty>>

\* Line 45: open(LOG_FILE, "a"); the descriptor starts at the end the file
\* has now.
LogOpen(t, outcome) ==
    /\ lg.th[t].pc = "open"
    /\ lg' = [lg EXCEPT !.th[t].pc = IF outcome = "ok" THEN "write" ELSE "lost",
                        !.th[t].offset = Len(lg.file)]
    /\ UNCHANGED <<session_allowed, allowed_file, disabled_file, pre_hooks,
                   history_log, process_log, ctx, spawned, args, pc, pe, plan,
                   ep, pool, bt, rw, tr, ck, post_hooked, tty>>

\* Line 46 and the end of the with block: the text waits in the buffer of
\* the file object and the close flushes it with one write(2).
LogWrite(t, outcome) ==
    /\ lg.th[t].pc = "write"
    /\ lg' = [lg EXCEPT
              !.th[t].pc = IF outcome = "ok" THEN "written" ELSE "lost",
              !.file = IF outcome = "ok"
                       THEN AppendWrite(@, lg.th[t].offset,
                               LogLine(t, args.commands[t], lg.th[t].success))
                       ELSE @]
    /\ UNCHANGED <<session_allowed, allowed_file, disabled_file, pre_hooks,
                   history_log, process_log, ctx, spawned, args, pc, pe, plan,
                   ep, pool, bt, rw, tr, ck, post_hooked, tty>>

LogCommand ==
    \/ \E t \in 1..MaxThreads, success \in BOOLEAN : LogCall(t, success)
    \/ \E t \in 1..MaxThreads, outcome \in LogOutcomes : LogBuild(t, outcome)
    \/ \E t \in 1..MaxThreads, outcome \in LogOutcomes : LogOpen(t, outcome)
    \/ \E t \in 1..MaxThreads, outcome \in LogOutcomes : LogWrite(t, outcome)

\* The workers of one wave or batch, each with the command it ran.
InitLog ==
    /\ InitCommon
    /\ session_allowed = {}
    /\ allowed_file = MissingFile
    /\ disabled_file = MissingFile
    /\ pre_hooks = <<>>
    /\ plan = NoPlan
    /\ \E n \in 2..MaxThreads :
          \E commands \in [1..n -> {CmdLs, CmdMake}] :
             args = [entry |-> "log_command", command |-> NoText,
                     commands |-> commands, auto_yes |-> FALSE,
                     dry_run |-> FALSE, results |-> <<>>]

SpecLog == InitLog /\ [][LogCommand]_vars

(***************************************************************************)
(* orchestrator.py _execute_step_bg, executor.py _exec_single: what the    *)
(* worker threads print                                                    *)
(***************************************************************************)

\* How the child process of a worker ended, as far as printing goes: with
\* text on stdout and stderr, with none, or subprocess.run raised.
PrintOutcomes == {"output", "silent", "raised"}

\* The statements of a worker function that touch the terminal, in order.
\* _execute_step_bg (lines 510-514, 517-518, 523-524) prints inside
\* "with _print_lock"; _exec_single (lines 321-327, 332) calls print with
\* no lock around it.
WorkerPrints(fn, outcome) ==
    IF fn = "_execute_step_bg"
    THEN (IF outcome = "output"
          THEN <<"acquire", "print", "print", "release">>
          ELSE IF outcome = "silent"
          THEN <<"acquire", "release">>
          ELSE <<"acquire", "print", "release">>)
         \o <<"acquire", "print", "release">>
    ELSE IF outcome = "output" THEN <<"print", "print", "print">>
    ELSE <<"print">>

\* subprocess.run has returned or raised in worker t, which goes on to the
\* statements that print.
PrintCall(t, outcome) ==
    /\ args.entry \in {"_execute_step_bg", "_exec_single"}
    /\ t \in DOMAIN args.commands
    /\ args.results[t] = None
    /\ args' = [args EXCEPT !.results[t] = "printing"]
    /\ tty' = [tty EXCEPT !.th[t].prog = WorkerPrints(args.entry, outcome)]
    /\ UNCHANGED <<session_allowed, allowed_file, disabled_file, pre_hooks,
                   history_log, process_log, ctx, spawned, pc, pe, plan,
                   ep, pool, bt, rw, tr, ck, post_hooked, lg>>

\* with _print_lock: the thread waits until the lock is free and takes it.
LockAcquire(t) ==
    /\ tty.th[t].prog # <<>>
    /\ Head(tty.th[t].prog) = "acquire"
    /\ tty.lock = 0
    /\ tty' = [tty EXCEPT !.lock = t, !.th[t].prog = Tail(@)]
    /\ UNCHANGED <<session_allowed, allowed_file, disabled_file, pre_hooks,
                   history_log, process_log, ctx, spawned, args, pc, pe, plan,
                   ep, pool, bt, rw, tr, ck, post_hooked, lg>>

\* The end of the with block.
LockRelease(t) ==
    /\ tty.th[t].prog # <<>>
    /\ Head(tty.th[t].prog) = "release"
    /\ tty' = [tty EXCEPT !.lock = 0, !.th[t].prog = Tail(@)]
    /\ UNCHANGED <<session_allowed, allowed_file, disabled_file, pre_hooks,
                   history_log, process_log, ctx, spawned, args, pc, pe, plan,
                   ep, pool, bt, rw, tr, ck, post_hooked, lg>>

\* print(...) is entered: the thread starts to write to the terminal.
PrintBegin(t) ==
    /\ tty.th[t].prog # <<>>
    /\ Head(tty.th[t].prog) = "print"
    /\ ~tty.th[t].writing
    /\ tty' = [tty EXCEPT !.th[t].writing = TRUE]
    /\ UNCHANGED <<session_allowed, allowed_file, disabled_file, pre_hooks,
                   history_log, process_log, ctx, spawned, args, pc, pe, plan,
                   ep, pool, bt, rw, tr, ck, post_hooked, lg>>

\* print(...) returns: the text and its end have been written.
PrintEnd(t) ==
    /\ tty.th[t].writing
    /\ tty' = [tty EXCEPT !.th[t].writing = FALSE, !.th[t].prog = Tail(@)]
    /\ UNCHANGED <<session_allowed, allowed_file, disabled_file, pre_hooks,
                   history_log, process_log, ctx, spawned, args, pc, pe, plan,
                   ep, pool, bt, rw, tr, ck, post_hooked, lg>>

WorkerOutput ==
    \/ \E t \in 1..MaxThreads, outcome \in PrintOutcomes : PrintCall(t, outcome)
    \/ \E t \in 1..MaxThreads : LockAcquire(t)
    \/ \E t \in 1..MaxThreads : LockRelease(t)
    \/ \E t \in 1..MaxThreads : PrintBegin(t)
    \/ \E t \in 1..MaxThreads : PrintEnd(t)

\* The workers of one wave (_execute_step_bg) or of one batch
\* (_exec_single), each with the command it ran.
InitPrint ==
    /\ InitCommon
    /\ session_allowed = {}
    /\ allowed_file = MissingFile
    /\ disabled_file = MissingFile
    /\ pre_hooks = <<>>
    /\ plan = NoPlan
    /\ \E n \in 2..MaxThreads, fn \in {"_execute_step_bg", "_exec_single"} :
          args = [entry |-> fn, command |-> NoText,
                  commands |-> [t \in 1..n |-> CmdLs], auto_yes |-> TRUE,
                  dry_run |-> FALSE, results |-> [t \in 1..n |-> None]]

SpecPrint == InitPrint /\ [][WorkerOutput]_vars

(***************************************************************************)
(* executor.py: group_independent as a function of the command list        *)
(***************************************************************************)

\* A command whose fourth word is a file-writing verb.
CmdLsRm == <<"l","s"," ","-","l","a"," ","."," ","r","m">>

\* Commands of the lists: three without marker or writing verb in their
\* first three words, one that writes, one that pipes and one that chains.
CmdChain == <<"l","s"," ","&","&"," ","l","s">>
GroupCommands == {CmdLs, CmdMake, CmdLsRm, CmdRmRoot, CmdPipe, CmdChain}

\* Lines 192-230: the call and its return value.
GroupIndependent ==
    /\ pc = "start"
    /\ args.entry = "group_independent"
    /\ args' = [args EXCEPT !.results = group_independent(args.commands)]
    /\ pc' = "done"
    /\ UNCHANGED <<session_allowed, allowed_file, disabled_file, pre_hooks,
                   history_log, process_log, ctx, spawned, pe, plan, ep, pool,
                   bt, rw, tr, ck, post_hooked, lg, tty>>

\* The lists group_independent is given: none, one or several commands.
InitGroup ==
    /\ InitCommon
    /\ session_allowed = {}
    /\ allowed_file = MissingFile
    /\ disabled_file = MissingFile
    /\ pre_hooks = <<>>
    /\ plan = NoPlan
    /\ \E n \in 0..MaxCommands :
          \E commands \in [1..n -> GroupCommands] :
             args = [entry |-> "group_independent", command |-> NoText,
                     commands |-> commands, auto_yes |-> FALSE,
                     dry_run |-> FALSE, results |-> <<>>]

SpecGroup == InitGroup /\ [][GroupIndependent]_vars

Init == InitSingle \/ InitBatch \/ InitPlan \/ InitSiblings \/ InitWaves
           \/ InitTrust \/ InitStore \/ InitCheck \/ InitLog
           \/ InitPrint \/ InitGroup

Next == CliCall \/ CliReturn \/ PreviewAndExecute \/ PreviewAndExecuteBatch
           \/ ExecutePlan \/ ResolveWaves \/ Settings \/ TrustCheck
           \/ SafetyCheck \/ LogCommand \/ WorkerOutput
           \/ GroupIndependent

Spec == Init /\ [][Next]_vars

(***************************************************************************)
(* Properties: the approval protocol of preview_and_execute                *)
(***************************************************************************)

\* The answers that let a command run: a choice of the option prompt, or the
\* confirmation word.
AcceptedAnswers == {TxtY, TxtA, TxtS, TxtExecute}

\* The call is cli.py's preview_and_execute(command) of a command with a
\* critical warning.
CriticalCall ==
    /\ args.entry = "preview_and_execute"
    /\ HasCritical(CheckCommand(args.command))

\* The call has passed the approval decision and its frame is still there.
PastApproval ==
    pe.pc = "approved" \/ (pe.pc = "return" /\ spawned # <<>>)

\* C3, as the spec states it: a command with a critical warning is spawned
\* only after the line the user typed is exactly the word execute.
C3_LiteralExecute ==
    CriticalCall => (PastApproval => pe.raw = TxtExecute)

\* C3, amended: a command with a critical warning, whatever auto_yes and the
\* trust stores hold, is spawned only after the user's line, with the
\* surrounding whitespace removed and in lower case, is the word execute;
\* any other line, or the end of input, cancels: nothing is spawned and the
\* call returns None.
C3_ForceConfirm ==
    CriticalCall =>
        /\ PastApproval => (pe.asked /\ Lower(Strip(pe.raw)) = TxtExecute)
        /\ \A k \in DOMAIN spawned : spawned[k].approval = TxtExecute
        /\ (pe.pc = "return" /\ pe.asked /\ Lower(Strip(pe.raw)) # TxtExecute)
              => (spawned = <<>> /\ pe.result = None)
        /\ (pc = "done" /\ spawned = <<>>) => args.results = <<None>>

\* C3: a critical command was spawned after the user typed EXECUTE and a
\* space, with auto_yes set and "rm" in the permanent allow list.
C3_Witness ==
    /\ CriticalCall
    /\ args.auto_yes
    /\ should_auto_execute(args.command)
    /\ pe.pc = "return"
    /\ pe.raw = <<"E","X","E","C","U","T","E"," ">>
    /\ Len(spawned) = 1

\* The call is cli.py's preview_and_execute(command, auto_yes=True) of a
\* command whose warnings are all medium or high.
AutoYesWarnedCall ==
    /\ args.entry = "preview_and_execute"
    /\ args.auto_yes
    /\ ~args.dry_run
    /\ CheckCommand(args.command) # <<>>
    /\ ~HasCritical(CheckCommand(args.command))

C10_DecisionStep ==
    (pe.pc = "entry" /\ ~pe.dry_run /\ pe'.pc # "entry") =>
        IF CheckCommand(pe.command) = <<>>
           /\ (pe.auto_yes \/ should_auto_execute(pe.command))
        THEN pe'.pc = "approved" /\ ~pe'.asked
        ELSE pe'.pc \in {"confirm", "prompt"}

PlanCall == args.entry = "execute_plan"

\* The step at position p has been started: set to running, or spawned.
Started(p) ==
    \/ plan.steps[p].status = "running"
    \/ \E k \in DOMAIN spawned : spawned[k].step = p

\* The step at position p was set running or spawned at some time: a step
\* that ran has a status other than pending, and a step skipped for a failed
\* dependency has no duration.
EverStarted(p) ==
    \/ Started(p)
    \/ plan.steps[p].duration_ms # Unset

\* a has no dependencies, b depends on a only, c depends on b only.
Chain(a, b, c) ==
    /\ a # b /\ b # c /\ a # c
    /\ plan.steps[a].depends_on = {}
    /\ plan.steps[b].depends_on = {plan.steps[a].id}
    /\ plan.steps[c].depends_on = {plan.steps[b].id}

\* C1: for steps A (no dependencies), B depending on A and C depending on B,
\* once A's command has failed neither B nor C is ever running or spawned,
\* and both are skipped when the plan ends.
C1_CascadingSkipTransitive ==
    PlanCall =>
        \A a, b, c \in DOMAIN plan.steps :
            (Chain(a, b, c) /\ plan.steps[a].status = "failed") =>
                /\ ~EverStarted(b)
                /\ ~EverStarted(c)
                /\ pc = "done" => /\ plan.steps[b].status = "skipped"
                                  /\ plan.steps[c].status = "skipped"

\* C2: in execute_plan with auto_yes set, a step whose command has a
\* critical warning is spawned only after the user typed the confirmation
\* word for that step.
C2_AutoYesKeepsForceConfirm ==
    (PlanCall /\ args.auto_yes) =>
        \A k \in DOMAIN spawned :
            HasCritical(CheckCommand(spawned[k].checked))
                => spawned[k].approval = TxtExecute

\* C6: in execute_plan with auto_yes off, a step whose command has a warning
\* or is not trusted by should_auto_execute is spawned only after a prompt
\* for that step was accepted.
C6_GateFailuresAreApproved ==
    (PlanCall /\ ~args.auto_yes) =>
        \A k \in DOMAIN spawned :
            (\/ CheckCommand(spawned[k].checked) # <<>>
             \/ ~should_auto_execute(spawned[k].checked))
                => spawned[k].approval \in AcceptedAnswers

\* C7: a step is started only when every other step whose id it lists in
\* depends_on has status success, failed or skipped, in every plan.
C7_StartsAfterDependencies ==
    PlanCall =>
        \A p, q \in DOMAIN plan.steps :
            (p # q /\ Started(p) /\ plan.steps[q].id \in plan.steps[p].depends_on)
                => plan.steps[q].status \in Terminal

\* C8: a wave of more than one step holds no step that lists the id of
\* another step of the wave in depends_on, and no two steps of which one
\* depends on the other are running at the same time.
C8_WavesAreIndependent ==
    PlanCall =>
        /\ \A w \in DOMAIN ep.waves :
              Len(ep.waves[w]) > 1 =>
                  \A p, q \in Positions(ep.waves[w]) :
                      p # q => plan.steps[q].id \notin plan.steps[p].depends_on
        /\ \A p, q \in DOMAIN plan.steps :
              (/\ p # q
               /\ plan.steps[p].status = "running"
               /\ plan.steps[q].status = "running")
                  => plan.steps[q].id \notin plan.steps[p].depends_on

\* C8: two steps of a wave are running in the worker pool, in a plan where a
\* third step depends on one of them.
C8_Witness ==
    /\ PlanCall
    /\ Len(ep.waves) >= 2
    /\ \E p, q \in Positions(ep.waves[1]) :
          /\ p # q
          /\ pool.fn = "_execute_step_bg"
          /\ pool.state[p] = "running"
          /\ pool.state[q] = "running"
          /\ \E r \in DOMAIN plan.steps :
                plan.steps[p].id \in plan.steps[r].depends_on

\* C9: a step of a later wave is started only when every step of every
\* earlier wave has status success, failed or skipped.
C9_WavesAreSequential ==
    PlanCall =>
        \A v, w \in DOMAIN ep.waves :
            v < w =>
                \A q \in Positions(ep.waves[v]), p \in Positions(ep.waves[w]) :
                    Started(p) => plan.steps[q].status \in Terminal

\* C9: a step of the second wave is running after a first wave of which one
\* step ran on the calling thread and one in the worker pool.
C9_Witness ==
    /\ PlanCall
    /\ Len(ep.waves) >= 2
    /\ ep.wi = 2
    /\ \E p \in Positions(ep.waves[2]) : plan.steps[p].status = "running"
    /\ \E j, k \in DOMAIN spawned :
          /\ spawned[j].by = "_execute_step_bg"
          /\ spawned[k].by \in {"_execute_step", "run_command"}
          /\ {spawned[j].step, spawned[k].step} \subseteq Positions(ep.waves[1])

(***************************************************************************)
(* Cancelled confirmations                                                 *)
(***************************************************************************)

\* Whether an input given at a prompt of the kind at (the prompt the frame
\* waits at: "confirm" or "prompt") is a cancellation, read off the typed
\* text alone.
Declines(at, in) ==
    \/ in \in {EOFError, KeyboardInterrupt}
    \/ /\ at = "confirm"
       /\ Lower(Strip(in)) # TxtExecute
    \/ /\ at = "prompt"
       /\ Lower(Strip(in)) \notin {TxtY, TxtYes, TxtA, TxtS}

\* The step in which a prompt of preview_and_execute reads a cancellation.
C11_CancelStep ==
    (/\ pe.pc \in {"confirm", "prompt"}
     /\ pe'.pc # pe.pc
     /\ Declines(pe.pc, pe'.raw))
    => /\ pe' = [pe EXCEPT !.pc = "return", !.asked = TRUE, !.raw = pe'.raw,
                           !.answer = pe'.answer]
       /\ pe'.result = None
       /\ UNCHANGED <<spawned, history_log, process_log, session_allowed,
                      allowed_file, disabled_file, ctx, rw, tr, ck,
                      post_hooked, lg, tty>>

\* C11: a cancelled confirmation leaves no trace. When the answer read at
\* the option prompt is n, empty, unrecognized, end-of-input or an interrupt,
\* or the answer at the force-confirm prompt is anything but execute, the
\* call returns None in that very step with no process spawned, no audit
\* entry appended and the session set and the permanent list unchanged, and
\* nothing is spawned or logged afterwards; end-of-input and interrupt take
\* the same step as an explicit n.
C11_CancelLeavesNoTrace ==
    /\ [][C11_CancelStep]_vars
    /\ [](args.entry = "preview_and_execute" =>
            /\ (/\ pe.asked
                /\ Declines(IF HasCritical(pe.warnings) THEN "confirm"
                            ELSE "prompt", pe.raw))
               => /\ pe.pc = "return"
                  /\ pe.result = None
                  /\ spawned = <<>>
                  /\ history_log = <<>>
            /\ (pc = "done" /\ args.results = <<None>>)
               => /\ spawned = <<>>
                  /\ history_log = <<>>
                  /\ process_log = <<>>)

\* An interrupt at the option prompt and a wrong word at the force-confirm
\* prompt have both been read and the calls have returned.
C11_Witness ==
    /\ pe.pc = "return"
    /\ pe.asked
    /\ pe.result = None
    /\ spawned = <<>>
    /\ \/ pe.raw = KeyboardInterrupt /\ ~HasCritical(pe.warnings)
       \/ pe.raw = TxtY /\ HasCritical(pe.warnings)

(***************************************************************************)
(* Dry runs, the plan confirmation and the plan status                     *)
(***************************************************************************)

\* C12: a dry run has no effects. With dry_run set, preview_and_execute,
\* preview_and_execute_batch and execute_plan spawn no process and append
\* nothing to the command log or the process log, whatever the command,
\* the commands or the plan are; every result is None, and for a plan every
\* step stays pending and the plan status becomes dry_run.
C12_DryRunHasNoEffects ==
    args.dry_run =>
       /\ spawned = <<>>
       /\ history_log = <<>>
       /\ process_log = <<>>
       /\ ctx.history = <<>>
       /\ pool = NoPool
       /\ \A k \in DOMAIN args.results : args.results[k] = None
       /\ PlanCall =>
             /\ \A p \in DOMAIN plan.steps : plan.steps[p].status = "pending"
             /\ plan.status = IF pc = "done" THEN "dry_run" ELSE "pending"
             /\ plan.total_duration_ms = Unset

\* A dry run of a batch of three commands, a critical one and one that is
\* auto-approved otherwise among them, has returned.
C12_Witness ==
    /\ args.dry_run
    /\ args.auto_yes
    /\ args.entry = "preview_and_execute_batch"
    /\ pc = "done"
    /\ Len(args.commands) = 3
    /\ Len(args.results) = 3
    /\ {CmdRmRoot, CmdLs} \subseteq Range(args.commands)
    /\ spawned = <<>>

\* Whether an input given at the plan-level confirmation declines the plan,
\* read off the typed text alone.
DeclinesPlan(in) ==
    \/ in \in {EOFError, KeyboardInterrupt}
    \/ Lower(Strip(in)) \notin {TxtY, TxtYes}

\* The step of execute_plan that follows the reading of the confirmation.
C13_DecisionStep ==
    (pc = "plan_confirm" /\ pc' # pc) =>
       IF DeclinesPlan(ep.answer)
       THEN /\ plan' = [plan EXCEPT !.status = "cancelled"]
            /\ pc' = "done"
            /\ UNCHANGED <<spawned, history_log, process_log, ctx, pool,
                           session_allowed, allowed_file, rw, tr, ck,
                           post_hooked, lg, tty>>
       ELSE /\ plan' = plan
            /\ pc' = "wave"

\* C13: declining the plan-level confirmation (any answer other than y or
\* yes, end-of-input or an interrupt) sets the plan status to cancelled
\* before any execution: execute_plan returns with every step pending, no
\* process spawned, total_duration_ms unset and nothing appended to the
\* command log or the process log.
C13_DeclinedPlanIsCancelled ==
    /\ [][C13_DecisionStep]_vars
    /\ []((PlanCall /\ plan.status = "cancelled") =>
            /\ pc = "done"
            /\ DeclinesPlan(ep.answer)
            /\ \A p \in DOMAIN plan.steps :
                  /\ plan.steps[p].status = "pending"
                  /\ plan.steps[p].exit_code = Unset
            /\ spawned = <<>>
            /\ plan.total_duration_ms = Unset
            /\ history_log = <<>>
            /\ process_log = <<>>)

\* The answer a, which approves a single command for good, has declined a
\* plan of three steps.
C13_Witness ==
    /\ PlanCall
    /\ plan.status = "cancelled"
    /\ pc = "done"
    /\ ep.answer = TxtA
    /\ Len(plan.steps) = 3
    /\ spawned = <<>>

\* The statuses the steps of the plan have.
StepStatuses == {plan.steps[p].status : p \in DOMAIN plan.steps}

\* C14: after all waves of execute_plan have finished, the plan status is
\* completed if no step has status failed or skipped, failed if (some step
\* has and) no step has status success, and partial otherwise.
C14_PlanStatusFromSteps ==
    (/\ PlanCall
     /\ pc = "done"
     /\ plan.status \notin {"dry_run", "cancelled"})
    => /\ ep.wi > Len(ep.waves)
       /\ plan.status =
             IF StepStatuses \cap {"failed", "skipped"} = {} THEN "completed"
             ELSE IF "success" \notin StepStatuses THEN "failed"
             ELSE "partial"
       /\ plan.total_duration_ms # Unset

\* A plan with a successful, a failed and a skipped step has finished as
\* partial.
C14_Witness ==
    /\ PlanCall
    /\ pc = "done"
    /\ plan.status = "partial"
    /\ StepStatuses = {"success", "failed", "skipped"}

(***************************************************************************)
(* Properties: resolve_waves                                               *)
(***************************************************************************)

\* The ids of the steps of a wave, the ids of the waves before wave k and
\* the steps (positions) of the waves before wave k.
WaveIds(steps, wave) == {steps[p].id : p \in Positions(wave)}
IdsBefore(steps, waves, k) ==
    UNION {WaveIds(steps, waves[j]) : j \in 1..(k - 1)}
ScheduledBefore(waves, k) == UNION {Positions(waves[j]) : j \in 1..(k - 1)}

\* Greedy leveling: the not-yet-scheduled steps, in input order, all of
\* whose dependency ids belong to steps of the waves before wave k.
LeveledWave(steps, waves, k) ==
    LET Level(p) == /\ p \notin ScheduledBefore(waves, k)
                    /\ steps[p].depends_on \subseteq IdsBefore(steps, waves, k)
    IN  SelectSeq([p \in DOMAIN steps |-> p], Level)

StepIds(steps) == {steps[p].id : p \in DOMAIN steps}

\* Every dependency is the id of a step of the list.
AllPresent(steps) ==
    \A p \in DOMAIN steps : steps[p].depends_on \subseteq StepIds(steps)

\* No id depends on itself through any number of steps: the ids can be
\* ranked so that every dependency ranks below the step that names it.
Acyclic(steps) ==
    \E rank \in [StepIds(steps) -> 1..Len(steps)] :
       \A p \in DOMAIN steps :
          \A d \in steps[p].depends_on \cap StepIds(steps) :
             rank[d] < rank[steps[p].id]

DistinctIds(steps) ==
    \A p, q \in DOMAIN steps : steps[p].id = steps[q].id => p = q

\* Each step but the first depends on the step before it, and on it alone.
IsChain(steps) ==
    /\ DistinctIds(steps)
    /\ \A p \in DOMAIN steps :
          steps[p].depends_on = IF p = 1 THEN {} ELSE {steps[p - 1].id}

\* The number of waves a step is in.
TimesScheduled(waves, p) ==
    Cardinality({k \in DOMAIN waves : p \in Positions(waves[k])})

C15_EveryWaveIsLeveled ==
    \A k \in DOMAIN rw.waves :
       rw.waves[k] = LeveledWave(plan.steps, rw.waves, k)

C15_EveryStepInOneWave ==
    (Acyclic(plan.steps) /\ AllPresent(plan.steps)) =>
       \A p \in DOMAIN plan.steps : TimesScheduled(rw.waves, p) = 1

C15_ChainGivesSingletons ==
    IsChain(plan.steps) => rw.waves = [k \in DOMAIN plan.steps |-> <<k>>]

\* C15: resolve_waves is greedy topological leveling. Wave k is exactly the
\* list, in input order, of the not-yet-scheduled steps all of whose
\* dependency ids belong to steps of waves 1..k-1; for a plan whose
\* dependencies are acyclic and all present every step lands in exactly one
\* wave; a chain of n steps each depending on the previous one yields n
\* singleton waves.
C15_GreedyLeveling ==
    rw.pc = "done" =>
       /\ C15_EveryWaveIsLeveled
       /\ C15_EveryStepInOneWave
       /\ C15_ChainGivesSingletons

\* A pass of resolve_waves that finds no step ready while steps remain: the
\* dependencies of every remaining step name an id that no step of the
\* waves built so far has.
Stalled ==
    /\ rw.pc = "loop"
    /\ rw.n > 0
    /\ rw.remaining # <<>>
    /\ \A k \in DOMAIN rw.remaining :
          ~(plan.steps[rw.remaining[k]].depends_on
               \subseteq IdsBefore(plan.steps, rw.waves, Len(rw.waves) + 1))

C16_FallbackStep ==
    Stalled =>
       /\ rw'.pc = "done"
       /\ rw'.waves = rw.waves \o [k \in DOMAIN rw.remaining |->
                                      <<rw.remaining[k]>>]

\* C16: resolve_waves terminates on every finite step list, including
\* cyclic dependencies, self-dependencies and dependencies on absent ids:
\* the call returns; it takes at most len(steps) + 1 passes and builds at
\* most len(steps) waves; the remaining steps are kept in input order; and
\* as soon as a pass selects no step while steps remain, each remaining step
\* is emitted as its own singleton wave in original input order and
\* resolution stops.
C16_ResolveTerminates ==
    /\ <>(rw.pc = "done")
    /\ [][C16_FallbackStep]_vars
    /\ [](/\ rw.n >= 0
          /\ Len(rw.waves) <= Len(plan.steps)
          /\ \A j, k \in DOMAIN rw.remaining :
                j < k => rw.remaining[j] < rw.remaining[k]
          /\ (rw.pc = "loop" /\ rw.n = 0) => rw.remaining = <<>>)

\* Step 1 is ready, steps 2 and 3 wait for each other: one wave from the
\* ready filter, then the two singleton waves in input order.
C16_Witness ==
    /\ rw.pc = "done"
    /\ Len(plan.steps) = 3
    /\ \A p \in 1..3 : plan.steps[p].id = p
    /\ plan.steps[1].depends_on = {}
    /\ plan.steps[2].depends_on = {3}
    /\ plan.steps[3].depends_on = {2}
    /\ rw.waves = << <<1>>, <<2>>, <<3>> >>
    /\ rw.n = 3

\* The ids that can complete: the ids of the steps all of whose dependencies
\* can complete, found by starting from the steps without dependencies.
RECURSIVE CompletableIds(_, _, _)
CompletableIds(steps, ids, rounds) ==
    IF rounds = 0 THEN ids
    ELSE CompletableIds(steps,
             {steps[p].id : p \in {q \in DOMAIN steps :
                                      steps[q].depends_on \subseteq ids}},
             rounds - 1)

\* The step at position p has a dependency that never completes: an id no
\* step has, an id on a cycle, or the id of a step that waits for one.
NeverCompletes(steps, p) ==
    ~(steps[p].depends_on \subseteq CompletableIds(steps, {}, Len(steps)))

\* execute_plan has passed its confirmation and resolved the waves.
PlanRuns ==
    /\ PlanCall
    /\ pc \notin {"start", "plan_confirm"}
    /\ plan.status \notin {"dry_run", "cancelled"}

Reorderings(steps) ==
    {[k \in DOMAIN steps |-> steps[f[k]]] :
        f \in {g \in [DOMAIN steps -> DOMAIN steps] :
                  \A j, k \in DOMAIN steps : g[j] = g[k] => j = k}}

\* The waves of a step list, each wave as the set of the ids of its steps.
WaveIdSets(steps) ==
    LET waves == resolve_waves(steps)
    IN  {WaveIds(steps, waves[k]) : k \in DOMAIN waves}

\* C18: resolve_waves is independent of the input order. For every step
\* list and every permutation of it, the set of waves, each wave taken as
\* the set of its step ids, is the same.
C18_OrderIndependent ==
    \A perm \in Reorderings(plan.steps) :
       WaveIdSets(perm) = WaveIdSets(plan.steps)

\* The resolver has returned three waves for a list of three steps given
\* last step first: step 3 depends on step 2, step 2 on step 1.
C18_Witness ==
    /\ rw.pc = "done"
    /\ Len(plan.steps) = 3
    /\ \A p \in 1..3 : plan.steps[p].id = 4 - p
    /\ plan.steps[1].depends_on = {2}
    /\ plan.steps[2].depends_on = {1}
    /\ plan.steps[3].depends_on = {}
    /\ rw.waves = << <<3>>, <<2>>, <<1>> >>

(***************************************************************************)
(* Properties: the trust stores                                            *)
(***************************************************************************)

\* The commands should_auto_execute is asked about.
QueryCommands == {CmdLs, CmdGitStatus, CmdQuote, CmdPipe, CmdFind, CmdMkdir}

\* A command matches a prefix or a list entry: it is the entry, or starts
\* with the entry and a space, letter case aside.
MatchesEntry(command, entry) ==
    LET cmd == Lower(Strip(command))
        e == Lower(entry)
    IN  cmd = e \/ StartsWith(cmd, e \o <<" ">>)

\* The builtin prefixes each command matches, whether enabled or not.
BuiltinPrefixesOf ==
    [command \in QueryCommands |->
        {prefix \in _DEFAULT_SAFE_PREFIXES : MatchesEntry(command, prefix)}]

\* The command matches a builtin prefix that is enabled.
MatchesEnabledPrefix(command) ==
    BuiltinPrefixesOf[command] \ LoadSet(disabled_file) # {}

\* An entry of the session set or of the permanent list matches the command.
MatchesAllowLists(command) ==
    \E entry \in session_allowed \cup LoadSet(allowed_file) :
       MatchesEntry(command, entry)

\* The last settings call disabled a builtin prefix that was enabled.
JustDisabled(prefix) ==
    /\ tr.last.op = "disable_safe_command"
    /\ tr.last.arg = prefix
    /\ prefix \in _DEFAULT_SAFE_PREFIXES \ LoadSet(tr.last.disabled)

AddThenRemove ==
    /\ tr.prev.op = "add_to_permanent"
    /\ tr.last.op = "remove_from_permanent"
    /\ tr.last.arg = tr.prev.arg

\* C20 as stated: for every command c and every prior content of the
\* permanent set, add_to_permanent(c) followed by remove_from_permanent(c)
\* leaves the permanent set equal to its content before the add.
C20_AddRemoveRoundTrip ==
    AddThenRemove => LoadSet(allowed_file) = LoadSet(tr.prev.allowed)

\* C20, corrected: add_to_permanent(c) followed by remove_from_permanent(c)
\* leaves the permanent set equal to its content before the add without the
\* key of c (its first two tokens), when both writes of the file succeed: equal to
\* the prior content exactly when the key was not in it. A failed write
\* leaves the file as it was; remove returns whether the key was in the
\* set; when c cannot be split both calls raise and nothing changes.
C20_AddRemoveDropsKey ==
    AddThenRemove =>
       LET key == _normalize(tr.last.arg)
           before == LoadSet(tr.prev.allowed)
           between == LoadSet(tr.last.allowed)
           after == LoadSet(allowed_file)
       IN  IF key = ValueError
           THEN /\ tr.prev.result = "ValueError"
                /\ tr.last.result = "ValueError"
                /\ allowed_file = tr.prev.allowed
           ELSE /\ between = IF tr.prev.write = "ok" THEN before \cup {key}
                             ELSE before
                /\ tr.last.result = PyBool(key \in between)
                /\ after = IF key \in between /\ tr.last.write = "ok"
                           THEN between \ {key} ELSE between
                /\ (tr.prev.write = "ok" /\ tr.last.write = "ok") =>
                      /\ after = before \ {key}
                      /\ after = before <=> key \notin before

\* "git status -s" was added to a permanent list of three other entries
\* under the key "git status" and removed again: the list is as before.
C20_Witness ==
    /\ AddThenRemove
    /\ tr.last.arg = CmdGitStatus
    /\ tr.prev.write = "ok"
    /\ tr.last.write = "ok"
    /\ LoadSet(tr.prev.allowed) = {KeyMkdir, KeyRm, KeyFind}
    /\ LoadSet(tr.last.allowed) = {KeyMkdir, KeyRm, KeyFind, KeyGitStatus}
    /\ LoadSet(allowed_file) = {KeyMkdir, KeyRm, KeyFind}

(***************************************************************************)
(* Properties: corrupt stores                                              *)
(***************************************************************************)

\* The last call was a trust check.
TrustChecked == tr.last.op = "should_auto_execute"

\* The content of a store is one the loaders' except clauses and isinstance
\* test cover: missing, unreadable or malformed, not an array, or an array
\* of strings.
HandledFile(file) == file.kind \in {"missing", "invalid", "notlist", "list"}

\* C21: whatever the permanent allow-list file and the disabled-builtins
\* file hold (missing, unreadable, malformed JSON, JSON that is not an
\* array, an array with non-string or nested elements), should_auto_execute
\* returns a boolean and does not raise.
C21_TrustCheckNeverRaises ==
    TrustChecked => tr.last.result \in {"True", "False"}

\* The part of C21 that the code keeps: with both files missing,
\* unreadable, malformed, not an array or an array of strings, the trust
\* check returns a boolean, and a file that is not such an array counts as
\* the empty set.
C21_HandledStoresGiveBoolean ==
    (TrustChecked /\ HandledFile(tr.last.allowed)
                  /\ HandledFile(tr.last.disabled))
        => /\ tr.last.result \in {"True", "False"}
           /\ tr.last.result =
                  PyBool(ShouldAuto(tr.last.arg, tr.last.disabled,
                                    tr.last.session, tr.last.allowed))
           /\ tr.last.allowed.kind # "list" => LoadSet(tr.last.allowed) = {}

\* A trust check that raised on an array with a nested element.
C21_Witness ==
    /\ TrustChecked
    /\ tr.last.allowed.kind = "nested"
    /\ tr.last.result = "TypeError"

(***************************************************************************)
(* Properties: the three tiers of the trust check                          *)
(***************************************************************************)

\* The builtin prefixes each checked command matches, enabled or not.
DefaultsMatching ==
    [command \in CheckedCommands |->
        {prefix \in _DEFAULT_SAFE_PREFIXES : MatchesEntry(command, prefix)}]

\* Some entry of (builtin prefixes minus the disabled set), of the session
\* set or of the permanent set matches the command of the last call, the
\* sets being those the call found.
SomeEntryMatches ==
    \/ DefaultsMatching[tr.last.arg] \ LoadSet(tr.last.disabled) # {}
    \/ \E entry \in tr.last.session \cup LoadSet(tr.last.allowed) :
          MatchesEntry(tr.last.arg, entry)

\* C22: should_auto_execute(c) returns true exactly when some entry e of
\* (builtin prefixes minus the disabled set), the session set or the
\* permanent set is, letter case aside and c trimmed, equal to c or
\* followed in c by a space; with no such entry it returns false.
C22_TrueIffSomeEntryMatches ==
    (TrustChecked /\ tr.last.result \in {"True", "False"})
        => (tr.last.result = "True" <=> SomeEntryMatches)

\* Calls answered true by an entry written in capitals for a command typed
\* in lower case, and false for a command that continues a key without a
\* space.
C22_Witness ==
    /\ TrustChecked
    /\ tr.prev.op = "should_auto_execute"
    /\ tr.prev.arg = CmdMkdirs /\ tr.prev.result = "False"
    /\ tr.last.arg = CmdMkdir /\ tr.last.result = "True"
    /\ tr.last.allowed = ListFile({KeyMkdirUpper})

(***************************************************************************)
(* Properties: the safety classifier                                       *)
(***************************************************************************)

\* check_command has returned; ck.warnings is its result.
CheckReturned == ck.pc = "returned"

RecursiveForcedDelete ==
    SafetyWarning("high", "Recursive forced delete")
FileDeletion == SafetyWarning("medium", "File deletion")

MatchingRules(command) ==
    {k \in DOMAIN _RULES : Search(_RULES[k].re, Strip(command), _RULES[k].ic)}

\* The first rule of a reason among the rules given.
FirstRuleOf(reason, rules) ==
    CHOOSE k \in rules :
        /\ _RULES[k].reason = reason
        /\ \A j \in rules : _RULES[j].reason = reason => k <= j

\* C24: the list check_command returns holds no two warnings with the same
\* reason, holds a warning for a reason exactly when a rule with that
\* reason matches, and lists the warnings in the declaration order of the
\* first matching rule of each reason.
C24_OnePerReasonInRuleOrder ==
    CheckReturned =>
        LET matching == MatchingRules(args.command)
            warnings == ck.warnings
        IN  /\ \A i, j \in DOMAIN warnings :
                   warnings[i].reason = warnings[j].reason => i = j
            /\ {warnings[i].reason : i \in DOMAIN warnings}
                   = {_RULES[k].reason : k \in matching}
            /\ \A i, j \in DOMAIN warnings :
                   i < j => FirstRuleOf(warnings[i].reason, matching)
                                < FirstRuleOf(warnings[j].reason, matching)
            /\ \A i \in DOMAIN warnings :
                   warnings[i].severity =
                       _RULES[FirstRuleOf(warnings[i].reason, matching)].severity
            /\ warnings = check_command(args.command)

\* A returned list for a command that two rules of one reason match (fdisk
\* and parted) beside rules of other reasons.
C24_Witness ==
    /\ CheckReturned
    /\ \E k1, k2 \in MatchingRules(args.command) :
          k1 # k2 /\ _RULES[k1].reason = _RULES[k2].reason
    /\ Len(ck.warnings) >= 2

(***************************************************************************)
(* Properties: what every execution leaves behind                          *)
(***************************************************************************)

\* The spawns made by the functions given.
SpawnedBy(functions) == {k \in DOMAIN spawned : spawned[k].by \in functions}

C25_CallingThreadRefreshes ==
    pc = "done" =>
        /\ Len(history_log) = Len(spawned)
        /\ ctx.refreshes
              = Cardinality(SpawnedBy({"run_command", "_execute_step"}))
        /\ Len(ctx.history) = ctx.refreshes

ReportsFor(outcome, Success(_)) ==
    /\ PE_Run(outcome)
          => pe'.result = PyBool(Success(outcome))
    /\ ExecStepRun(outcome)
          => plan'.steps[ep.cur].status
                 = IF Success(outcome) THEN "success" ELSE "failed"
    /\ \A p \in DOMAIN pool.state :
          WorkerFinish(p, outcome)
             => plan'.steps[p].status
                    = IF Success(outcome) THEN "success" ELSE "failed"
    /\ \A idx \in DOMAIN pool.state :
          ExecSingleFinish(idx, outcome)
             => pool'.result[idx] = PyBool(Success(outcome))

\* C26: for every outcome of launching a command, run_command,
\* _exec_single, _execute_step and _execute_step_bg report a result, and
\* the result is success exactly when the process exited with code 0; a
\* launch error is reported as failure.
C26_SuccessIffExitedZero ==
    [][\A outcome \in Outcomes : ReportsFor(outcome, ExitedZero)]_vars

\* The output of the child was read; a worker has to decode it.
OutputRead(outcome) == outcome = "exit0"

\* The part of C26 that the code keeps: on the calling thread (run_command
\* and the direct path of _execute_step) the result is success exactly
\* when the process exited with code 0; on a worker it is success exactly
\* when the process exited with code 0 and its output could be decoded;
\* every outcome gives a result.
C26_WorkersNeedDecodableOutput ==
    [][\A outcome \in Outcomes :
          /\ PE_Run(outcome) => pe'.result = PyBool(ExitedZero(outcome))
          /\ ExecStepRun(outcome)
                => plan'.steps[ep.cur].status
                       = IF ExitedZero(outcome) THEN "success" ELSE "failed"
          /\ \A p \in DOMAIN pool.state :
                /\ WorkerFinish(p, outcome)
                      => plan'.steps[p].status
                             = IF OutputRead(outcome) THEN "success"
                               ELSE "failed"
                /\ ExecSingleFinish(p, outcome)
                      => pool'.result[p] = PyBool(OutputRead(outcome))]_vars

\* A plan has finished in which a worker ran a step and reported failure.
C26_Witness ==
    /\ pc = "done"
    /\ \E k \in DOMAIN spawned :
          /\ spawned[k].by = "_execute_step_bg"
          /\ plan.steps[spawned[k].step].status = "failed"

(***************************************************************************)
(* Properties: the plugin hooks                                            *)
(***************************************************************************)

\* The commands that were spawned, in the order they started.
SpawnedCommands == [k \in DOMAIN spawned |-> spawned[k].command]

\* C27: plugin hooks wrap every execution. For every command spawned, on
\* every path, what is spawned is what run_pre_hooks made of the approved
\* command, and run_post_hooks is called after the process has ended: when
\* the call has returned, the post hooks have seen every spawned command.
C27_HooksWrapEverySpawn ==
    /\ \A k \in DOMAIN spawned :
          spawned[k].command = RunHooks(pre_hooks, spawned[k].checked)
    /\ pc = "done" =>
          \A k \in DOMAIN spawned :
             \E j \in DOMAIN post_hooked : post_hooked[j] = spawned[k].command

\* The part of C27 that the code keeps: the hooks wrap the executions that
\* go through preview_and_execute and run_command, and only those. The
\* worker functions and the direct path of _execute_step spawn the command
\* as it was classified, and the post hooks are called once for each
\* run_command, in order.
C27_HooksWrapRunCommandOnly ==
    /\ \A k \in DOMAIN spawned :
          spawned[k].command =
              IF spawned[k].by = "run_command"
              THEN RunHooks(pre_hooks, spawned[k].checked)
              ELSE spawned[k].checked
    /\ post_hooked =
          [j \in 1..Cardinality(SpawnedBy({"run_command"})) |->
              SpawnedCommands[
                  CHOOSE k \in SpawnedBy({"run_command"}) :
                     Cardinality({i \in SpawnedBy({"run_command"}) : i <= k})
                         = j]]

\* A batch worker has spawned a command that a registered pre hook
\* rewrites.
C27_Witness ==
    /\ pre_hooks # <<>>
    /\ \E k \in DOMAIN spawned :
          /\ spawned[k].by = "_exec_single"
          /\ RunHooks(pre_hooks, spawned[k].checked) # spawned[k].checked
          /\ spawned[k].command = spawned[k].checked

(***************************************************************************)
(* Properties: the worker pools                                            *)
(***************************************************************************)

\* The futures of the pool whose child process is running.
Running == {p \in DOMAIN pool.state : pool.state[p] = "running"}

\* The commands dispatched to the pool: safe_batch in
\* _execute_wave_parallel, approved in _run_parallel.
Dispatched ==
    IF pool.fn = "_execute_step_bg" THEN Len(ep.safe_batch)
    ELSE IF pool.fn = "_exec_single" THEN Len(bt.approved)
    ELSE 0

\* C28: the worker pool is bounded. In _execute_wave_parallel and in
\* _run_parallel the number of commands running at the same time never
\* exceeds min(number of dispatched commands, 4), and the pool is created
\* with that many workers; the children started and not yet ended are
\* never more than 4.
C28_PoolIsBounded ==
    /\ Cardinality(Running) <= Min(Dispatched, 4)
    /\ pool # NoPool => pool.max_workers = Min(Dispatched, 4)
    /\ Cardinality({k \in DOMAIN spawned : spawned[k].by \in
                        {"_execute_step_bg", "_exec_single"}})
          - Len(history_log) <= 4

\* Five commands were dispatched, four are running and the fifth waits in
\* the queue of the pool.
C28_Witness ==
    /\ Dispatched = 5
    /\ Cardinality(Running) = 4
    /\ \E p \in DOMAIN pool.state : pool.state[p] = "queued"

(***************************************************************************)
(* Properties: risky commands and the pools                                *)
(***************************************************************************)

\* The functions that run on a worker thread.
WorkerFunctions == {"_execute_step_bg", "_exec_single"}

\* A future of the pool is queued or running.
PoolBusy ==
    \E p \in DOMAIN pool.state : pool.state[p] \in {"queued", "running"}

\* The steps at positions p and q are in the same wave.
SameWave(p, q) ==
    \E w \in DOMAIN ep.waves : {p, q} \subseteq Positions(ep.waves[w])

\* C29: risky commands are never parallelized. A step or batch command
\* that carries a safety warning is never dispatched to a worker; within a
\* wave the steps that fail the gate run on the calling thread one at a
\* time, in declaration order, and all of them have finished before the
\* first gate-passing step is dispatched; no call of preview_and_execute,
\* and so no prompt, is open while a future of a pool is queued or running.
C29_RiskyNeverParallel ==
    /\ \A k \in DOMAIN spawned :
          spawned[k].by \in WorkerFunctions
             => CheckCommand(spawned[k].checked) = <<>>
    /\ \A p \in DOMAIN pool.state :
          pool.state[p] # "none" =>
             CheckCommand(IF pool.fn = "_execute_step_bg"
                          THEN plan.steps[p].command
                          ELSE bt.batches[bt.bi][p]) = <<>>
    /\ PoolBusy => pe = IdlePE
    /\ (PlanCall /\ pool # NoPool) =>
          \A q \in Positions(ep.runnable) \ Positions(ep.safe_batch) :
             plan.steps[q].status \in Terminal
    /\ PlanCall =>
          \A i, j \in DOMAIN spawned :
             (i < j /\ SameWave(spawned[i].step, spawned[j].step)) =>
                /\ spawned[i].by \in WorkerFunctions
                      => spawned[j].by \in WorkerFunctions
                /\ spawned[j].by \notin WorkerFunctions
                      => spawned[i].step < spawned[j].step

\* In one wave a step with a warning was confirmed and run on the calling
\* thread, and a step without warning is now running on a worker.
C29_Witness ==
    /\ PlanCall
    /\ \E p \in DOMAIN pool.state, k \in DOMAIN spawned :
          /\ pool.fn = "_execute_step_bg"
          /\ pool.state[p] = "running"
          /\ spawned[k].by = "run_command"
          /\ SameWave(spawned[k].step, p)
          /\ CheckCommand(spawned[k].checked) # <<>>


\* C30: a step that fails or is skipped does not abort its siblings: every
\* step of a wave that execute_plan found runnable (no dependency of it had
\* failed) reaches one of the statuses success, failed, skipped, whatever
\* becomes of the other steps of the wave.
C30_SiblingsReachTerminal ==
    \A p \in 1..MaxSteps :
       (PlanCall /\ p \in Positions(ep.runnable))
          ~> (p \in DOMAIN plan.steps /\ plan.steps[p].status \in Terminal)

\* A wave of several steps stopped by the ValueError that add_to_permanent
\* or add_to_session let through at the prompt of one step, while a sibling
\* that needs no prompt was never started.
C30_Witness ==
    /\ PlanCall
    /\ pc = "raised"
    /\ Len(ep.runnable) > 1
    /\ plan.steps[ep.cur].status = "running"
    /\ \E q \in Positions(ep.safe_batch) : plan.steps[q].status = "pending"


\* The positions a future of a pool can have: of a step in its plan, or of a
\* command in its batch.
PoolPositions == 1..(IF MaxSteps > MaxCommands THEN MaxSteps ELSE MaxCommands)

\* A step taken by the worker thread that runs the future at position p.
WorkerStep(p) ==
    \/ WorkerStart(p)
    \/ \E outcome \in Outcomes : WorkerFinish(p, outcome)
    \/ ExecSingleStart(p)
    \/ \E outcome \in Outcomes : ExecSingleFinish(p, outcome)

\* The future at position p was submitted and its function has not returned.
InWorker(p) ==
    p \in DOMAIN pool.state /\ pool.state[p] \in {"queued", "running"}

\* C31: the shared scheduler state is written by the coordinating thread
\* only. A step of a worker thread leaves the session set, the permanent
\* allow-list, the disabled-builtins set, failed_ids and the results of the
\* batch as they are and writes no Step but its own; a future is submitted
\* only for a step or command that the gate, evaluated before, put in
\* safe_batch or approved; and while a future is submitted and not finished
\* nobody but its worker writes its Step.
C31_WorkersWriteOnlyTheirStep ==
    [][\A p \in PoolPositions :
          /\ WorkerStep(p) =>
                /\ session_allowed' = session_allowed
                /\ allowed_file' = allowed_file
                /\ disabled_file' = disabled_file
                /\ ep' = ep
                /\ bt' = bt
                /\ plan'.status = plan.status
                /\ \A q \in DOMAIN plan.steps :
                      q # p => plan'.steps[q] = plan.steps[q]
          /\ (p \in DOMAIN pool.state /\ pool.state[p] = "none"
                /\ p \in DOMAIN pool'.state /\ pool'.state[p] = "queued") =>
                /\ p \in Positions(IF pool.fn = "_execute_step_bg"
                                   THEN ep.safe_batch ELSE bt.approved)
                /\ ~NeedsPrompt(IF pool.fn = "_execute_step_bg"
                                THEN plan.steps[p].command
                                ELSE bt.batches[bt.bi][p], args.auto_yes)
          /\ (InWorker(p) /\ ~WorkerStep(p) /\ p \in DOMAIN plan.steps) =>
                plan'.steps[p] = plan.steps[p]
      ]_vars

\* Two futures of one wave, one whose worker has written its Step and one
\* whose worker is still running, after the coordinating thread changed the
\* session set at a prompt of the same wave.
C31_Witness ==
    /\ PlanCall
    /\ session_allowed # {}
    /\ \E p, q \in DOMAIN pool.state :
          /\ pool.state[p] = "done"
          /\ plan.steps[p].status \in {"success", "failed"}
          /\ pool.state[q] = "running"
          /\ plan.steps[q].status = "running"


\* The threads of a log_command run, and those whose call has returned.
LogThreads == DOMAIN args.commands
LogReturned == {t \in LogThreads : lg.th[t].pc \in {"written", "lost"}}

\* The log is a sequence of complete lines: every record is followed by its
\* own newline and nothing stands between the two.
CompleteLines ==
    /\ Len(lg.file) % 2 = 0
    /\ \A k \in DOMAIN lg.file :
          k % 2 = 1 =>
             /\ lg.file[k].part = "json"
             /\ lg.file[k + 1] = [lg.file[k] EXCEPT !.part = "newline"]

\* The places of the log where the record of thread t's call starts.
RecordsOf(t) ==
    {k \in DOMAIN lg.file : lg.file[k].call = t /\ lg.file[k].part = "json"}

\* C32 as stated: when the worker threads have all returned from
\* log_command, the log holds one complete line per call; no record is lost
\* and no two records are interleaved.
C32_OneLinePerCall ==
    (args.entry = "log_command" /\ LogReturned = LogThreads) =>
       /\ CompleteLines
       /\ \A t \in LogThreads : Cardinality(RecordsOf(t)) = 1

\* C32, amended: appends are atomic under concurrency. At every moment the
\* log is a sequence of complete lines; a call whose append was written has
\* exactly one line, with the command and the success flag it was given;
\* a call that met an OSError (which log_command swallows) or has not
\* written yet has none.
C32_OneLinePerAppend ==
    args.entry = "log_command" =>
       /\ CompleteLines
       /\ \A t \in LogThreads :
             IF lg.th[t].pc = "written"
             THEN \E k \in DOMAIN lg.file :
                     /\ RecordsOf(t) = {k}
                     /\ lg.file[k].command = args.commands[t]
                     /\ lg.file[k].success = lg.th[t].success
             ELSE RecordsOf(t) = {}

\* Three threads have all written, and one of them wrote after a thread
\* that had opened the file later: its line is not at the offset its
\* descriptor had at the open.
C32_Witness ==
    /\ args.entry = "log_command"
    /\ Cardinality(LogThreads) = MaxThreads
    /\ \A t \in LogThreads : lg.th[t].pc = "written"
    /\ \E t \in LogThreads : lg.th[t].offset + 1 \notin RecordsOf(t)


\* The worker threads that are inside a print call.
Writing == {t \in DOMAIN tty.th : tty.th[t].writing}

\* C33: every write of a worker to the terminal is made while the worker
\* holds the output lock, in _execute_step_bg and in _exec_single, so two
\* workers never print at the same time.
C33_WorkersPrintUnderLock ==
    /\ \A t \in Writing : tty.lock = t
    /\ Cardinality(Writing) <= 1

\* Two workers of _run_parallel are inside print at the same time and
\* nobody holds the lock.
C33_Witness ==
    /\ args.entry = "_exec_single"
    /\ Cardinality(Writing) >= 2
    /\ tty.lock = 0


\* group_independent has returned.
Grouped == args.entry = "group_independent" /\ pc = "done"

\* The command has no dependency marker and none of its first three words
\* is a file-writing verb.
ParallelSafe(cmd) ==
    /\ ~Search(_DEPENDENCY_MARKERS, cmd, FALSE)
    /\ LET words == Split(cmd)
       IN  \A k \in DOMAIN words : k <= 3 => words[k] \notin WriteWords

NotParallelSafe(cmd) == ~ParallelSafe(cmd)

\* How often x occurs in the list seq.
Occurrences(seq, x) == Cardinality({k \in DOMAIN seq : seq[k] = x})

\* How often x occurs in the batches of the list.
OccurrencesIn(batches, x) ==
    LET RECURSIVE Sum(_)
        Sum(k) == IF k = 0 THEN 0 ELSE Occurrences(batches[k], x) + Sum(k - 1)
    IN  Sum(Len(batches))

\* C34: for a list of two or more commands group_independent returns at
\* most one parallel-safe batch, placed first, that holds exactly the
\* commands with no dependency marker and no file-writing verb among their
\* first three words; then one batch of one command for each of the other
\* commands, in their original order; and every command of the list is in
\* the batches exactly as often as in the list.
C34_SafeBatchThenSingletons ==
    (Grouped /\ Len(args.commands) >= 2) =>
       LET commands == args.commands
           batches == args.results
           safe == SelectSeq(commands, ParallelSafe)
           rest == SelectSeq(commands, NotParallelSafe)
           first == IF safe = <<>> THEN 0 ELSE 1
       IN  /\ Len(batches) = first + Len(rest)
           /\ safe # <<>> =>
                 /\ Len(batches[1]) = Len(safe)
                 /\ \A c \in GroupCommands :
                       Occurrences(batches[1], c) = Occurrences(safe, c)
           /\ \A k \in DOMAIN rest : batches[first + k] = <<rest[k]>>
           /\ \A c \in GroupCommands :
                 OccurrencesIn(batches, c) = Occurrences(commands, c)

\* A list of three commands that starts with one that writes; the two
\* after it, one of them with a writing verb as its fourth word, make the
\* first batch and the first command comes last, alone.
C34_Witness ==
    /\ Grouped
    /\ Len(args.commands) = 3
    /\ args.commands[1] = CmdRmRoot
    /\ CmdLsRm \in Positions(args.commands)
    /\ Len(args.results) = 2
    /\ Len(args.results[1]) = 2
    /\ args.results[2] = <<CmdRmRoot>>


\* preview_and_execute_batch has returned.
BatchReturned == args.entry = "preview_and_execute_batch" /\ pc = "done"

\* The command log holds an entry with this success flag for the command
\* (as given, or as the pre hooks rewrote it).
Logged(command, success) ==
    \E k \in DOMAIN history_log :
       /\ history_log[k].success = success
       /\ history_log[k].command \in {command, run_pre_hooks(command)}

\* How many child processes were started for the command.
RunsOf(command) ==
    Cardinality({k \in DOMAIN spawned : spawned[k].checked = command})

\* C35: preview_and_execute_batch returns one result per input command, by
\* position: the list it returns is as long as the list it was given; where
\* it says True or False the command at that place of the input ran and
\* ended so, and where it says None that command did not run (it ran less
\* often than the input names it).
C35_ResultsArePositional ==
    BatchReturned =>
       /\ Len(args.results) = Len(args.commands)
       /\ \A i \in DOMAIN args.results :
             /\ args.results[i] = "True" => Logged(args.commands[i], TRUE)
             /\ args.results[i] = "False" => Logged(args.commands[i], FALSE)
             /\ args.results[i] = None =>
                   RunsOf(args.commands[i])
                      < Occurrences(args.commands, args.commands[i])

\* The list [rm -rf /, make all] under auto_yes: the critical command was
\* declined and never ran, make ran and exited 0, and the results say True
\* for the first place and None for the second.
C35_Witness ==
    /\ BatchReturned
    /\ args.commands = <<CmdRmRoot, CmdMake>>
    /\ args.results = <<"True", None>>
    /\ RunsOf(CmdRmRoot) = 0
    /\ Logged(CmdMake, TRUE)


\* The last call approved a command and returned: add_to_session or
\* add_to_permanent, as the prompt calls them for the answers s and a.
JustApproved ==
    /\ tr.last.op \in {"add_to_session", "add_to_permanent"}
    /\ tr.last.result = "None"

\* C36: approving a command makes it trusted. After add_to_session(c) or
\* add_to_permanent(c) has returned, should_auto_execute(c) is true for the
\* same command text c, also when c has quoted arguments or several blanks
\* between its tokens.
C36_ApprovedIsTrusted ==
    JustApproved => should_auto_execute(tr.last.arg)

\* "make  all", with two blanks, was approved for the session: the session
\* set holds the key "make all" and the command is not trusted.
C36_Witness ==
    /\ JustApproved
    /\ tr.last.op = "add_to_session"
    /\ tr.last.arg = CmdMakeSpaced
    /\ CmdMake \in session_allowed
    /\ ~should_auto_execute(CmdMakeSpaced)
    /\ should_auto_execute(CmdMake)


\* execute_plan has returned after running the waves.
PlanRan ==
    /\ PlanCall
    /\ pc = "done"
    /\ plan.status \in {"completed", "partial", "failed"}

\* C37: when execute_plan returns with the plan status completed every step
\* has the status success, and when it returns with completed, partial or
\* failed no step is pending or running; for every plan, also one in which
\* two steps carry the same id or a dependency is cyclic or absent.
C37_NoStepLeftBehind ==
    PlanRan =>
       /\ \A p \in DOMAIN plan.steps : plan.steps[p].status \in Terminal
       /\ plan.status = "completed" =>
             \A p \in DOMAIN plan.steps : plan.steps[p].status = "success"

\* A plan of three steps with the ids 1, 2, 2, the third needing step 1,
\* returned as completed: the first two steps succeeded and the third was
\* never in a wave and is still pending.
C37_Witness ==
    /\ PlanRan
    /\ plan.status = "completed"
    /\ Len(plan.steps) = 3
    /\ plan.steps[2].id = plan.steps[3].id
    /\ plan.steps[3].depends_on = {plan.steps[1].id}
    /\ plan.steps[1].status = "success"
    /\ plan.steps[2].status = "success"
    /\ plan.steps[3].status = "pending"
    /\ 3 \notin UNION {Positions(ep.waves[w]) : w \in DOMAIN ep.waves}


\* The step at position q was declined at its own confirmation prompt:
\* _execute_step set it running and timed it, preview_and_execute returned
\* None without spawning it, and it is skipped.
DeclinedAtPrompt(q) ==
    /\ plan.steps[q].status = "skipped"
    /\ plan.steps[q].duration_ms # Unset
    /\ \A k \in DOMAIN spawned : spawned[k].step # q

\* C38: in execute_plan a spawned step has only dependencies that finished
\* with status success; in particular a step whose dependency was skipped
\* because the user declined it at its prompt is not spawned.
C38_SpawnedOnlyAfterSuccess ==
    PlanCall =>
        \A k \in DOMAIN spawned : \A q \in DOMAIN plan.steps :
            (/\ spawned[k].step \in DOMAIN plan.steps
             /\ q # spawned[k].step
             /\ plan.steps[q].id \in plan.steps[spawned[k].step].depends_on)
                => plan.steps[q].status = "success"

\* A step without dependencies was declined at its prompt and is skipped,
\* and a step that depends on it alone was spawned all the same.
C38_Witness ==
    /\ PlanCall
    /\ \E k \in DOMAIN spawned : \E q \in DOMAIN plan.steps :
           /\ spawned[k].step \in DOMAIN plan.steps
           /\ q # spawned[k].step
           /\ plan.steps[q].depends_on = {}
           /\ plan.steps[spawned[k].step].depends_on = {plan.steps[q].id}
           /\ DeclinedAtPrompt(q)


\* C39: the command string that is spawned is the command string that was
\* safety-classified and approved: every text handed to subprocess.run is the
\* text check_command was evaluated on, also when a pre-execution hook
\* rewrites the command.
C39_SpawnedIsClassified ==
    \A k \in DOMAIN spawned : spawned[k].command = spawned[k].checked

\* run_command spawned a text that a pre hook made of the approved command:
\* the approved text had no warning and was let through without a prompt,
\* the spawned text is classified critical and nobody was asked about it.
C39_Witness ==
    \E k \in DOMAIN spawned :
        /\ spawned[k].by = "run_command"
        /\ spawned[k].command = RunHooks(pre_hooks, spawned[k].checked)
        /\ spawned[k].command # spawned[k].checked
        /\ CheckCommand(spawned[k].checked) = <<>>
        /\ HasCritical(CheckCommand(spawned[k].command))
        /\ spawned[k].approval # TxtExecute


\* The call has ended: it returned, or an exception left it.
CallEnded == pc \in {"done", "raised"}

\* The command texts that were spawned or logged.
AuditedCommands ==
    {spawned[k].command : k \in DOMAIN spawned}
        \cup {history_log[j].command : j \in DOMAIN history_log}

\* The command audit entries of the text c, and the spawns of it.
EntriesOf(c) ==
    Cardinality({j \in DOMAIN history_log : history_log[j].command = c})

SpawnsOf(c) ==
    Cardinality({k \in DOMAIN spawned : spawned[k].command = c})

\* execute_plan went past the plan-level confirmation: it ended, and the
\* plan is neither a dry run nor cancelled.
PlanPassedConfirmation ==
    /\ PlanCall
    /\ CallEnded
    /\ plan.status \notin {"dry_run", "cancelled"}

\* The command audit: never more entries of a text than spawns of it (a
\* command that is cancelled or skipped has none, no spawn is logged twice),
\* and as many once the call has ended.
CommandAuditExact ==
    /\ \A c \in AuditedCommands : EntriesOf(c) <= SpawnsOf(c)
    /\ CallEnded => \A c \in AuditedCommands : EntriesOf(c) = SpawnsOf(c)

\* The process audit: at most one entry, written by execute_plan with the
\* final status of the plan, and one for every plan that passed the
\* plan-level confirmation.
ProcessAuditExact ==
    /\ Len(process_log) <= 1
    /\ process_log # <<>> =>
          /\ PlanCall
          /\ process_log[1] = plan
          /\ plan.status \in {"completed", "partial", "failed"}
    /\ PlanPassedConfirmation => Len(process_log) = 1

\* C40: each spawned command produces exactly one command audit entry and a
\* command that is cancelled or skipped produces none, a plan step routed
\* through preview_and_execute being logged once; and a plan that passes the
\* plan-level confirmation produces exactly one process audit entry, written
\* after its final status is derived.
C40_ExactlyOneAuditEntry ==
    /\ CommandAuditExact
    /\ ProcessAuditExact

\* execute_plan went past the plan-level confirmation and spawned a step,
\* which has its one command audit entry; then the call ended and the
\* process log is empty.
C40_Witness ==
    /\ PlanPassedConfirmation
    /\ spawned # <<>>
    /\ \A c \in AuditedCommands : EntriesOf(c) = SpawnsOf(c)
    /\ process_log = <<>>

================================================================
